---- MODULE Spec2Model ----
(***************************************************************************)
(* Model of pysui's asynchronous programmable-transaction builder          *)
(* (SuiTransactionAsync, src/pysui/sui/sui_txn/async_transaction.py).      *)
(*                                                                         *)
(* One transaction object is modelled.  Every public coroutine of the      *)
(* class is one action; the responses of the execution service (dry-run    *)
(* inspection, object fetches, function metadata, submission) are chosen   *)
(* with \E from small sets.  The variable `call` records what the call     *)
(* that has just completed did: its outcome, the error it raised, the      *)
(* remote requests it issued in order, and the value it returned; the      *)
(* action Return hands it to the caller, after which the next call starts. *)
(* `hist` remembers which kinds of call have completed on the object.      *)
(***************************************************************************)
EXTENDS Integers, Sequences, FiniteSets, TLC

VARIABLES
    executed,   \* self._executed
    commands,   \* self.builder.commands   (the command log)
    inputs,     \* self.builder.inputs     (the input table)
    registry,   \* self.builder.objects_registry (ids of object inputs)
    cache,      \* self._MC_RESULT_CACHE   (target string -> metadata)
    sender,     \* kind of self.signer_block.sender
    call,       \* the call that has just completed, IdleCall between calls
    hist,       \* history: kinds of completed calls seen so far
    prev,       \* history: the builder as it was when the completed call began
    tasks       \* execute() coroutines in progress: positions, requests sent

vars ==
    <<executed, commands, inputs, registry, cache, sender, call, hist, prev, tasks>>

(***************************************************************************)
(* Bounds of the model.                                                    *)
(***************************************************************************)
MaxCmds == 1        \* builder calls are taken while the log is shorter

MaxItems == 3       \* longest argument list given to _resolve_arguments

\* caller budgets, gas used reported by the dry run, balances of a gas coin
Budgets == {2}
Costs == {1, 2, 3}
Balances == {1, 2, 3}

(***************************************************************************)
(* The chain as the execution service reports it.                          *)
(***************************************************************************)
\* owner kind of the record the service returns for an object:
\* o1 a coin of the signer, o2 a shared object, o3 a child object,
\* 0x5 the system state, cap an upgrade capability, s1 a staked coin
OwnerOf(o) ==
    CASE o = "o1" -> "AddressOwner"
      [] o = "o2" -> "SharedOwner"
      [] o = "o3" -> "ObjectOwner"
      [] o = "0x5" -> "SharedOwner"
      [] o = "pkg" -> "ImmutableOwner"
      [] OTHER -> "AddressOwner"

\* parameters of a target as GetFunction reports them: is_mutable per position
ParametersOf(t) ==
    CASE t = "0xa::m::f" -> <<TRUE, FALSE>>
      [] t = "0xa::m::g" -> <<FALSE>>
      [] t = "0x3::sui_system::request_add_stake_mul_coin"
            -> <<TRUE, FALSE, FALSE, FALSE, TRUE>>
      [] t = "0x3::sui_system::request_withdraw_stake" -> <<TRUE, FALSE, TRUE>>
      [] t = "0x2::pay::divide_and_keep" -> <<TRUE, FALSE, TRUE>>
      [] t = "0x2::coin::divide_into_n" -> <<TRUE, FALSE, TRUE>>
      [] t = "0x1::vector::remove" -> <<TRUE, FALSE>>
      [] t = "0x1::vector::destroy_empty" -> <<FALSE>>
      [] t = "0xa::policy::authorize" -> <<TRUE, FALSE>>
      [] t = "0xa::policy::commit" -> <<TRUE, FALSE>>
      [] OTHER -> <<FALSE, FALSE>>

\* len(result.result_data.returns)
ReturnsOf(t) ==
    CASE t \in {"0xa::m::f", "0x2::coin::divide_into_n", "0x1::vector::remove",
                "0x3::sui_system::request_withdraw_stake",
                "0xa::policy::authorize"} -> 1
      [] OTHER -> 0

SenderKinds == {"address", "multisig", "none"}

(***************************************************************************)
(* Values.                                                                 *)
(***************************************************************************)
NoRet == [type |-> "None"]

Arg(a, i, j) == [a |-> a, i |-> i, j |-> j]
GasCoin == Arg("GasCoin", 0, 0)
InputArg(i) == Arg("Input", i, 0)
ResultArg(k) == Arg("Result", k, 0)
NestedResultArg(k, j) == Arg("NestedResult", k, j)

\* caller-side argument descriptors
IdItem(o) == [t |-> "id", o |-> o]          \* str / ObjectID: must be fetched
RecItem(o) == [t |-> "rec", o |-> o, owner |-> OwnerOf(o)]  \* ObjectRead
PureItem(v) == [t |-> "pure", v |-> v]      \* scalar value
ArgItem(a) == [t |-> "arg", arg |-> a]      \* bcs.Argument

\* one request to the execution service: what was asked, about what, the
\* response's kind and its numeric payload (gas used, coin balance)
Rpc(req, about, resp, n) == [req |-> req, about |-> about, resp |-> resp, n |-> n]

NoGas == [payment |-> <<>>, owner |-> "", price |-> "", budget |-> 0]

IdleCall ==
    [op |-> "none", budget |-> 0, ugo |-> "", outcome |-> "returned",
     error |-> "none", msg |-> "", rpcs |-> <<>>, gas |-> NoGas, ret |-> NoRet]

Max(a, b) == IF a >= b THEN a ELSE b

\* the execute() coroutines a caller may have started together
Tasks == {1, 2}

Init ==
    /\ executed = FALSE
    /\ commands = <<>>
    /\ inputs = <<>>
    /\ registry = {}
    /\ cache = <<>>
    /\ sender \in SenderKinds
    /\ call = IdleCall
    /\ hist = {}
    /\ prev = [commands |-> <<>>, inputs |-> <<>>, registry |-> {}]
    /\ tasks = [pc |-> [t \in Tasks |-> "start"], rpcs |-> <<>>]

(***************************************************************************)
(* _build_for_execute                                                      *)
(***************************************************************************)
\* self.raw_kind(): the rendered command and input log
raw_kind == [inputs |-> inputs, commands |-> commands]

\* lines 121-128: the address the dry-run inspection is run for
for_sender ==
    CASE sender = "address" -> "sender_address"
      [] sender = "multisig" -> "multisig_address"
      [] OTHER -> "active_address"

\* lines 204-207: the address bound as sender of the TransactionData;
\* "" when signer_block.sender has neither .address nor .signing_address
who_sends ==
    CASE sender = "address" -> "sender_address"
      [] sender = "multisig" -> "multisig_address"
      [] OTHER -> ""

InspectErrorString == "inspect: rpc error"
MalformedData == "inspect: malformed result_data"

BuildFail(err, msg, rpcs, gas) ==
    [ok |-> FALSE, error |-> err, msg |-> msg, rpcs |-> rpcs, gas |-> gas,
     ret |-> NoRet]

\* lines 204-216: bind the sender and wrap everything as TransactionData V1
FinishBuild(kind, gas, rpcs) ==
    IF sender = "none"
    THEN BuildFail("AttributeError", "signing_address", rpcs, gas)
    ELSE [ok |-> TRUE, error |-> "none", msg |-> "", rpcs |-> rpcs, gas |-> gas,
          ret |-> [type |-> "TransactionData", version |-> "V1", kind |-> kind,
                   sender |-> who_sends, gas |-> gas, expiration |-> "None"]]

\* the budget without the adjustment to the dry-run's cost
BudgetAsRequested(cost, gas_budget) == gas_budget

\* lines 156-161: the budget after the dry-run reported `cost`
InferredBudget(cost, gas_budget) == Max(cost, gas_budget)

\* the comparison of line 175 with the boundary on the wrong side
InsufficientGasInclusive(balance, gas_budget) == balance <= gas_budget

\* line 175: the explicit coin cannot pay
InsufficientGas(balance, gas_budget) == balance < gas_budget

\* the membership test of line 168 never finding the object
GasObjectNeverInUse(test_gas_object) == FALSE

\* line 168: the explicit gas object is an input of the command log
GasObjectInUse(test_gas_object) == test_gas_object \in registry

GasCoins == {"g1", "o1"}

\* explicit gas with the coin fetched before the registry is looked at
ExplicitGasFetchFirst(kind, gas_budget, ugo, rpcs) ==
    {BuildFail("ValueError", "Error in result",
               Append(rpcs, Rpc("get_object", <<ugo>>, "not_ok", 0)), NoGas),
     BuildFail("AttributeError", "balance",
               Append(rpcs, Rpc("get_object", <<ugo>>, "not_exist", 0)), NoGas)}
    \cup
    { LET rs == Append(rpcs, Rpc("get_object", <<ugo>>, "ok", bal))
      IN IF GasObjectInUse(ugo)
         THEN BuildFail("ValueError", "gas object in use", rs, NoGas)
         ELSE IF InsufficientGas(bal, gas_budget)
         THEN BuildFail("ValueError", "Insufficient gas", rs, NoGas)
         ELSE FinishBuild(kind,
                  [payment |-> <<ugo>>, owner |-> "coin_owner",
                   price |-> "current_gas_price", budget |-> gas_budget], rs)
      : bal \in Balances }

\* lines 162-192: explicit gas object
ExplicitGas(kind, gas_budget, ugo, rpcs) ==
    IF GasObjectInUse(ugo)
    THEN {BuildFail("ValueError", "gas object in use", rpcs, NoGas)}
    ELSE {BuildFail("ValueError", "Error in result",
                    Append(rpcs, Rpc("get_object", <<ugo>>, "not_ok", 0)), NoGas),
          BuildFail("AttributeError", "balance",
                    Append(rpcs, Rpc("get_object", <<ugo>>, "not_exist", 0)), NoGas)}
         \cup
         { LET rs == Append(rpcs, Rpc("get_object", <<ugo>>, "ok", bal))
           IN IF InsufficientGas(bal, gas_budget)
              THEN BuildFail("ValueError", "Insufficient gas", rs, NoGas)
              ELSE FinishBuild(kind,
                       [payment |-> <<ugo>>, owner |-> "coin_owner",
                        price |-> "current_gas_price", budget |-> gas_budget], rs)
           : bal \in Balances }

\* lines 194-203: the signer block selects the payment among the coins that
\* are not in use, or fails when none can pay
SelectedGas(kind, gas_budget, rpcs) ==
    {BuildFail("ValueError", "no gas for budget",
               Append(rpcs, Rpc("select_gas", <<>>, "failed", gas_budget)), NoGas)}
    \cup
    { FinishBuild(kind,
          [payment |-> <<c>>, owner |-> "payer", price |-> "current_gas_price",
           budget |-> gas_budget],
          Append(rpcs, Rpc("select_gas", <<c>>, "ok", gas_budget)))
      : c \in GasCoins \ registry }

\* lines 162, 194
ResolveGas(kind, gas_budget, ugo, rpcs) ==
    IF ugo # ""
    THEN ExplicitGas(kind, gas_budget, ugo, rpcs)
    ELSE SelectedGas(kind, gas_budget, rpcs)

\* the inspection step reporting result_data in place of result_string
InspectErrorData(resp) ==
    CASE resp = "raise_KeyError" -> <<"UnboundLocalError", "result">>
      [] resp = "raise_other" -> <<"RemoteError", "inspect transport">>
      [] OTHER -> <<"ValueError", MalformedData>>

\* lines 129-151: what the inspection step raises for each way it can fail
InspectError(resp) ==
    CASE resp = "raise_KeyError" -> <<"UnboundLocalError", "result">>
      [] resp = "raise_other" -> <<"RemoteError", "inspect transport">>
      [] resp = "not_ok" -> <<"ValueError", InspectErrorString>>
      [] OTHER -> <<"ValueError", MalformedData>>

InspectFailures == {"raise_KeyError", "raise_other", "not_ok", "ok_malformed"}

\* a failed inspection asked once more before the call gives up
BuildForExecuteRetry(gas_budget, ugo) ==
    LET tx_kind == raw_kind
        I(resp, n) == <<Rpc("inspect", <<for_sender>>, resp, n)>>
    IN  { BuildFail(InspectError(r)[1], InspectError(r)[2],
                    I(r, 0) \o I(r, 0), NoGas)
          : r \in InspectFailures }
        \cup
        UNION { ResolveGas(tx_kind, InferredBudget(c, gas_budget), ugo, I("ok", c))
                : c \in Costs }

\* lines 99-216: every way one call of _build_for_execute can go
BuildForExecute(gas_budget, ugo) ==
    LET tx_kind == raw_kind
        I(resp, n) == <<Rpc("inspect", <<for_sender>>, resp, n)>>
    IN  { BuildFail(InspectError(r)[1], InspectError(r)[2], I(r, 0), NoGas)
          : r \in InspectFailures }
        \cup
        UNION { ResolveGas(tx_kind, InferredBudget(c, gas_budget), ugo, I("ok", c))
                : c \in Costs }


(***************************************************************************)
(* Steps of a builder call.  A step takes the state `s` the call has       *)
(* reached (command log, input table, registry, target cache, requests     *)
(* issued so far) and gives the set of its possible results, one per       *)
(* response of the execution service.  A failed result keeps the state as  *)
(* it was when the error was raised.                                       *)
(***************************************************************************)
Here ==
    [commands |-> commands, inputs |-> inputs, registry |-> registry,
     cache |-> cache, rpcs |-> <<>>]

Ok(s, val) == [ok |-> TRUE, error |-> "none", msg |-> "", s |-> s, val |-> val]
Fail(s, err, msg) == [ok |-> FALSE, error |-> err, msg |-> msg, s |-> s, val |-> <<>>]

Sent(s, rpc) == [s EXCEPT !.rpcs = Append(@, rpc)]

(***************************************************************************)
(* Argument resolution: _resolve_item, _resolve_objects, _resolve_arguments *)
(***************************************************************************)
NotExistItem(o) == [t |-> "notexist", o |-> o]             \* ObjectNotExist
PureBuilderArg(v) == [t |-> "barg", v |-> v]               \* BuilderArg Pure
\* bcs.ObjectArg; `at` tells the objects apart: the position of the list whose
\* conversion built this one (0 before it is placed, and in the input table)
ObjectArg(kind, o) == [kind |-> kind, o |-> o, mutable |-> FALSE, at |-> 0]
Unbound == ObjectArg("unbound", "")
Tuple(o, objarg) == [t |-> "tup", o |-> o, objarg |-> objarg]

RECURSIVE SelectIdx(_, _, _)
\* the indexes i >= from of items whose kind is in `kinds`, in order
SelectIdx(items, kinds, from) ==
    IF from > Len(items) THEN <<>>
    ELSE IF items[from].t \in kinds
         THEN <<from>> \o SelectIdx(items, kinds, from + 1)
         ELSE SelectIdx(items, kinds, from + 1)

\* _resolve_item over the list: the raw identifiers go to objref_indexes,
\* the pre-fetched records to objtup_indexes, scalars become Pure builder
\* arguments, Arguments and tuples stay
RECURSIVE ResolveItemPure(_)
ResolveItemPure(items) ==
    IF items = <<>> THEN <<>>
    ELSE <<IF Head(items).t = "pure" THEN PureBuilderArg(Head(items).v)
           ELSE Head(items)>> \o ResolveItemPure(Tail(items))
ObjrefIndexes(items) == SelectIdx(items, {"id"}, 1)
ObjtupIndexes(items) == SelectIdx(items, {"rec"}, 1)

\* lines 332-335: the identifiers sent in the one batched request
RECURSIVE FetchIds(_, _)
FetchIds(items, objref_indexes) ==
    IF objref_indexes = <<>> THEN <<>>
    ELSE <<items[Head(objref_indexes)].o>> \o FetchIds(items, Tail(objref_indexes))

RECURSIVE FetchedRecords(_)
\* the record of each requested identifier, in request order
FetchedRecords(ids) ==
    IF ids = <<>> THEN <<>>
    ELSE <<RecItem(Head(ids))>> \o FetchedRecords(Tail(ids))

\* what get_objects_for may answer: an error, the records in request order,
\* the records with one reported as nonexistent, or one record too few
FetchResponses(ids) ==
    LET full == FetchedRecords(ids)
    IN  {[resp |-> "not_ok", list |-> <<>>], [resp |-> "ok", list |-> full],
         [resp |-> "short", list |-> SubSeq(full, 1, Len(ids) - 1)]}
        \cup {[resp |-> "notexist",
               list |-> [full EXCEPT ![k] = NotExistItem(ids[k])]]
              : k \in 1..Len(ids)}

RECURSIVE StoreFetchedReversed(_, _, _, _)
\* the fetched records stored last to first
StoreFetchedReversed(items, objref_indexes, res_list, index) ==
    IF index > Len(res_list) THEN items
    ELSE StoreFetchedReversed(
             [items EXCEPT ![objref_indexes[Len(res_list) - index + 1]] =
                               res_list[index]],
             objref_indexes, res_list, index + 1)

RECURSIVE StoreFetched(_, _, _, _)
\* lines 349-350: items[objref_indexes[index]] = result
StoreFetched(items, objref_indexes, res_list, index) ==
    IF index > Len(res_list) THEN items
    ELSE StoreFetched([items EXCEPT ![objref_indexes[index]] = res_list[index]],
                      objref_indexes, res_list, index + 1)

\* every record taken as an owned object, whatever its owner kind
ObjectArgForAllOwned(item, previous) ==
    CASE item.owner \in {"AddressOwner", "ImmutableOwner", "SharedOwner"}
            -> ObjectArg("ImmOrOwnedObject", item.o)
      [] OTHER -> previous

\* lines 357-369: the object argument for a record, or the one left over
\* from the previous iteration when the owner kind is none of the three
ObjectArgFor(item, previous) ==
    CASE item.owner \in {"AddressOwner", "ImmutableOwner"}
            -> ObjectArg("ImmOrOwnedObject", item.o)
      [] item.owner = "SharedOwner" -> ObjectArg("SharedObject", item.o)
      [] OTHER -> previous

RECURSIVE ConvertTuples(_, _, _, _)
\* lines 354-375
ConvertTuples(s, items, objtup_indexes, previous) ==
    IF objtup_indexes = <<>> THEN Ok(s, items)
    ELSE LET tindex == Head(objtup_indexes)
             item == items[tindex]
         IN IF item.t = "notexist"
            THEN Fail(s, "AttributeError", "owner")
            ELSE LET made == ObjectArgFor(item, previous)
                     b_obj_arg == IF made # Unbound /\ made.at = 0
                                  THEN [made EXCEPT !.at = tindex]
                                  ELSE made
                 IN IF b_obj_arg = Unbound
                    THEN Fail(s, "UnboundLocalError", "b_obj_arg")
                    ELSE ConvertTuples(s,
                             [items EXCEPT ![tindex] = Tuple(item.o, b_obj_arg)],
                             Tail(objtup_indexes), b_obj_arg)

\* _resolve_objects asking the service even for an empty list
ResolveObjectsAlwaysFetch(s, items, objref_indexes, objtup_indexes) ==
    LET ids == FetchIds(items, objref_indexes)
    IN { LET s1 == Sent(s, Rpc("get_objects_for", ids, r.resp, Len(r.list)))
         IN IF r.resp = "not_ok"
            THEN Fail(s1, "ValueError", "fetch failed")
            ELSE IF Len(r.list) # Len(objref_indexes)
            THEN Fail(s1, "ValueError", "Unable to find object in set")
            ELSE ConvertTuples(s1,
                     StoreFetched(items, objref_indexes, r.list, 1),
                     objtup_indexes \o objref_indexes, Unbound)
         : r \in FetchResponses(ids) }

\* _resolve_objects going on with the records it got when some are missing
ResolveObjectsPartial(s, items, objref_indexes, objtup_indexes) ==
    IF objref_indexes # <<>>
    THEN LET ids == FetchIds(items, objref_indexes)
         IN { LET s1 == Sent(s, Rpc("get_objects_for", ids, r.resp, Len(r.list)))
              IN IF r.resp = "not_ok"
                 THEN Fail(s1, "ValueError", "fetch failed")
                 ELSE ConvertTuples(s1,
                          StoreFetched(items, objref_indexes, r.list, 1),
                          objtup_indexes \o SubSeq(objref_indexes, 1, Len(r.list)),
                          Unbound)
              : r \in FetchResponses(ids) }
    ELSE {ConvertTuples(s, items, objtup_indexes, Unbound)}

\* lines 328-375
ResolveObjects(s, items, objref_indexes, objtup_indexes) ==
    IF objref_indexes # <<>>
    THEN LET ids == FetchIds(items, objref_indexes)
         IN { LET s1 == Sent(s, Rpc("get_objects_for", ids, r.resp, Len(r.list)))
              IN IF r.resp = "not_ok"
                 THEN Fail(s1, "ValueError", "fetch failed")
                 ELSE IF Len(r.list) # Len(objref_indexes)
                 THEN Fail(s1, "ValueError", "Unable to find object in set")
                 ELSE ConvertTuples(s1,
                          StoreFetched(items, objref_indexes, r.list, 1),
                          objtup_indexes \o objref_indexes, Unbound)
              : r \in FetchResponses(ids) }
    ELSE {ConvertTuples(s, items, objtup_indexes, Unbound)}

\* lines 380-388
ResolveArguments(s, items) ==
    ResolveObjects(s, ResolveItemPure(items), ObjrefIndexes(items),
                   ObjtupIndexes(items))

(***************************************************************************)
(* The command sequence builder (self.builder).                            *)
(***************************************************************************)
ObjectInput(item) ==
    [kind |-> "Object", o |-> item.o, v |-> 0,
     objarg |-> [item.objarg EXCEPT !.at = 0]]
PureInput(item) == [kind |-> "Pure", o |-> "", v |-> item.v, objarg |-> Unbound]

\* no slot ever found: every reference to an object takes a new input
SlotOfNone(ins, o) == 0

\* the slot of the input table that holds object o, 0 when there is none
SlotOf(ins, o) ==
    IF \E i \in 1..Len(ins) : ins[i].kind = "Object" /\ ins[i].o = o
    THEN CHOOSE i \in 1..Len(ins) : ins[i].kind = "Object" /\ ins[i].o = o
    ELSE 0

RECURSIVE InputArgs(_, _, _)
\* registers the resolved items as inputs, left to right: an object binds to
\* the slot that already holds it or to a new one, a Pure value always to a
\* new one, an Argument is used as it is.  Input indexes count from 0.
InputArgs(s, items, done) ==
    IF items = <<>> THEN [s |-> s, args |-> done]
    ELSE LET item == Head(items)
         IN CASE item.t = "arg" -> InputArgs(s, Tail(items), Append(done, item.arg))
              [] item.t = "barg" ->
                    InputArgs([s EXCEPT !.inputs = Append(@, PureInput(item))],
                              Tail(items), Append(done, InputArg(Len(s.inputs))))
              [] OTHER ->
                    IF SlotOf(s.inputs, item.o) # 0
                    THEN InputArgs(s, Tail(items),
                                   Append(done, InputArg(SlotOf(s.inputs, item.o) - 1)))
                    ELSE InputArgs([s EXCEPT !.inputs = Append(@, ObjectInput(item)),
                                             !.registry = @ \cup {item.o}],
                                   Tail(items), Append(done, InputArg(Len(s.inputs))))

Command(cmd, info, args) == [cmd |-> cmd, info |-> info, args |-> args]

\* the handle handed out names the position after the command's own
AppendCommandHandleNext(s, cmd, info, items) ==
    LET reg == InputArgs(s, items, <<>>)
    IN Ok([reg.s EXCEPT !.commands = Append(@, Command(cmd, info, reg.args))],
          <<ArgItem(ResultArg(Len(s.commands) + 1))>>)

\* appends one command over the resolved items; the value is the handle of
\* its result
AppendCommand(s, cmd, info, items) ==
    LET reg == InputArgs(s, items, <<>>)
    IN Ok([reg.s EXCEPT !.commands = Append(@, Command(cmd, info, reg.args))],
          <<ArgItem(ResultArg(Len(s.commands)))>>)

(***************************************************************************)
(* _move_call_target_cache                                                 *)
(***************************************************************************)
Metadata(target) == [parameters |-> ParametersOf(target), returns |-> ReturnsOf(target)]

\* line 425
CacheStore(c, target, meta) ==
    [t \in DOMAIN c \cup {target} |-> IF t = target THEN meta ELSE c[t]]

\* the lookup made whether or not the target is cached
MoveCallTargetCacheNoHit(s, target) ==
    {Fail(Sent(s, Rpc("get_function", <<target>>, "not_ok", 0)),
          "ValueError", "Unable to find target"),
     Ok([Sent(s, Rpc("get_function", <<target>>, "ok", 0))
            EXCEPT !.cache = CacheStore(@, target, Metadata(target))],
        <<Metadata(target)>>)}

\* a failed lookup remembered in the cache
MoveCallTargetCacheNegative(s, target) ==
    IF target \in DOMAIN s.cache
    THEN {Ok(s, <<s.cache[target]>>)}
    ELSE {Fail([Sent(s, Rpc("get_function", <<target>>, "not_ok", 0))
                   EXCEPT !.cache = CacheStore(@, target,
                                       [parameters |-> <<>>, returns |-> 0])],
               "ValueError", "Unable to find target"),
          Ok([Sent(s, Rpc("get_function", <<target>>, "ok", 0))
                 EXCEPT !.cache = CacheStore(@, target, Metadata(target))],
             <<Metadata(target)>>)}

\* lines 394-427
MoveCallTargetCache(s, target) ==
    IF target \in DOMAIN s.cache
    THEN {Ok(s, <<s.cache[target]>>)}
    ELSE {Fail(Sent(s, Rpc("get_function", <<target>>, "not_ok", 0)),
               "ValueError", "Unable to find target"),
          Ok([Sent(s, Rpc("get_function", <<target>>, "ok", 0))
                 EXCEPT !.cache = CacheStore(@, target, Metadata(target))],
             <<Metadata(target)>>)}

\* the object arguments that line 534 sets Mutable: those of the pairs at the
\* positions of mutable parameters
MutableRefs(arguments, parameters) ==
    {arguments[i].objarg.at :
        i \in {j \in 1..Len(arguments) : parameters[j] /\ arguments[j].t = "tup"}}

RECURSIVE MarkRefs(_, _)
\* the list once those objects are Mutable: every pair that holds one of them
\* shows it
MarkRefs(arguments, refs) ==
    IF arguments = <<>> THEN <<>>
    ELSE <<IF Head(arguments).t = "tup" /\ Head(arguments).objarg.at \in refs
           THEN [Head(arguments) EXCEPT !.objarg.mutable = TRUE]
           ELSE Head(arguments)>>
         \o MarkRefs(Tail(arguments), refs)

\* lines 528-534 and 593-599: r_arg.value.Mutable = True
MarkedArguments(arguments, parameters) ==
    MarkRefs(arguments, MutableRefs(arguments, parameters))

\* lines 526-534 and 591-599: IndexError when there are more arguments than
\* declared parameters
MarkMutable(s, arguments, parameters) ==
    IF Len(arguments) > Len(parameters)
    THEN Fail(s, "IndexError", "parameters")
    ELSE Ok(s, MarkedArguments(arguments, parameters))

\* lines 550-557 and 604-611: mark, then hand over to the builder
MarkAndAppend(s, target, arguments, meta) ==
    LET marked == MarkMutable(s, arguments, meta.parameters)
    IN IF marked.ok
       THEN AppendCommand(marked.s, "MoveCall", target, marked.val)
       ELSE marked

\* lines 559-611
InnerMoveCall(s, target, arguments) ==
    { IF m.ok THEN MarkAndAppend(m.s, target, arguments, m.val[1]) ELSE m
      : m \in MoveCallTargetCache(s, target) }

\* lines 506-557, after the assertions
MoveCallBody(s, target, arguments) ==
    UNION { IF ~m.ok THEN {m}
            ELSE IF arguments = <<>>
            THEN {AppendCommand(m.s, "MoveCall", target, <<>>)}
            ELSE { IF r.ok THEN MarkAndAppend(r.s, target, r.val, m.val[1]) ELSE r
                   : r \in ResolveArguments(m.s, arguments) }
            : m \in MoveCallTargetCache(s, target) }

(***************************************************************************)
(* How a call ends.                                                        *)
(***************************************************************************)
Raised(op, budget, ugo, err, msg, rpcs, gas) ==
    [op |-> op, budget |-> budget, ugo |-> ugo, outcome |-> "raised",
     error |-> err, msg |-> msg, rpcs |-> rpcs, gas |-> gas, ret |-> NoRet]

Returned(op, budget, ugo, rpcs, gas, ret) ==
    [op |-> op, budget |-> budget, ugo |-> ugo, outcome |-> "returned",
     error |-> "none", msg |-> "", rpcs |-> rpcs, gas |-> gas, ret |-> ret]

AlreadyExecuted(op, budget, ugo) ==
    Raised(op, budget, ugo, "AssertionError", "Transaction already executed",
           <<>>, NoGas)

builder == <<commands, inputs, registry>>

\* no call is in progress: the caller has taken the previous call's result
Idle == call = IdleCall

\* the errors _build_for_execute raises while it resolves the gas
GasErrors ==
    {InspectErrorString, MalformedData, "result", "inspect transport",
     "gas object in use", "Insufficient gas", "Error in result", "balance",
     "no gas for budget"}

GasFailure(c) == c.op = "execute" /\ c.outcome = "raised" /\ c.msg \in GasErrors

Marks(c) ==
    (IF c.op = "execute" /\ c.outcome = "returned"
     THEN {"execute returned"} ELSE {})
    \cup (IF c.op = "get_transaction_data" /\ c.outcome = "returned"
          THEN {"data returned"} ELSE {})
    \cup (IF GasFailure(c) THEN {"gas failed"} ELSE {})

\* the builder as a call finds it
Snapshot == [commands |-> commands, inputs |-> inputs, registry |-> registry]

\* the call completes: its record is in call'
Done ==
    /\ hist' = hist \cup Marks(call')
    /\ prev' = Snapshot
    /\ UNCHANGED tasks

\* the caller takes the result or the exception of the completed call
Return ==
    /\ ~Idle
    /\ call' = IdleCall
    /\ prev' = Snapshot
    /\ UNCHANGED <<executed, builder, cache, sender, hist, tasks>>

(***************************************************************************)
(* get_transaction_data, execute                                           *)
(***************************************************************************)
DefaultBudget == 1000000
\* use_gas_object: "" stands for None; o1 may be an input of the log
UseGasChoices == {"", "o1"}

\* lines 218-223
get_transaction_data ==
    \E gas_budget \in Budgets :
    \E b \in BuildForExecute(gas_budget, "") :
        /\ Idle
        /\ call' = IF b.ok
                   THEN Returned("get_transaction_data", gas_budget, "", b.rpcs,
                                 b.gas, b.ret)
                   ELSE Raised("get_transaction_data", gas_budget, "", b.error,
                               b.msg, b.rpcs, b.gas)
        /\ Done
        /\ UNCHANGED <<executed, builder, cache, sender>>

SubmitResponses == {"ok", "not_ok", "raise"}

\* execute without the assertion of line 262
ExecuteGuardMissing == TRUE

\* line 262
ExecuteGuard == ~executed

\* the flag set only for a successful result
ExecutedOnlyWhenOk(resp) == resp = "ok"

\* line 275: set whatever the returned result reports
ExecutedAfterSubmit(resp) == TRUE

\* the flag set before _build_for_execute is awaited
ExecutedBeforeBuild == TRUE

\* lines 264-275: an exception of _build_for_execute leaves the flag alone
ExecutedAfterBuildError == executed

\* lines 241-276; gas_budget 0 stands for a falsy gas_budget argument
execute ==
    \E budget \in {0} \cup Budgets, ugo \in UseGasChoices :
        LET gas_budget == IF budget # 0 THEN budget ELSE DefaultBudget
        IN
        /\ Idle
        /\ UNCHANGED <<builder, cache, sender>>
        /\ IF ~ExecuteGuard
           THEN /\ call' = AlreadyExecuted("execute", budget, ugo)
                /\ UNCHANGED executed
           ELSE \E b \in BuildForExecute(gas_budget, ugo) :
                  IF ~b.ok
                  THEN /\ call' = Raised("execute", budget, ugo, b.error, b.msg,
                                         b.rpcs, b.gas)
                       /\ executed' = ExecutedAfterBuildError
                  ELSE \E s \in SubmitResponses :
                         LET rs == Append(b.rpcs, Rpc("submit", <<b.ret.sender>>, s, 0))
                         IN IF s = "raise"
                            THEN /\ call' = Raised("execute", budget, ugo,
                                                   "RemoteError", "submit transport", rs,
                                                   b.gas)
                                 /\ UNCHANGED executed
                            ELSE /\ executed' = ExecutedAfterSubmit(s)
                                 /\ call' = Returned("execute", budget, ugo, rs, b.gas,
                                        [type |-> "SuiRpcResult", ok |-> (s = "ok"),
                                         tx |-> b.ret])
        /\ Done

(***************************************************************************)
(* inspect_all                                                             *)
(***************************************************************************)
\* lines 299-314: what inspect_all does with each response; the factory is
\* applied to result_data whether or not the result is ok
InspectAllOutcomes ==
    LET I(resp) == <<Rpc("inspect", <<for_sender>>, resp, 0)>>
        R(err, msg, resp) == Raised("inspect_all", 0, "", err, msg, I(resp), NoGas)
    IN {R("UnboundLocalError", "result", "raise_KeyError"),
        R("RemoteError", "inspect transport", "raise_other"),
        R("ValueError", MalformedData, "ok_malformed"),
        R("ValueError", MalformedData, "not_ok"),
        R("TypeError", "result_data", "not_ok"),
        Returned("inspect_all", 0, "", I("ok"), NoGas,
                 [type |-> "TxInspectionResult", kind |-> raw_kind])}

\* inspect_all ending as execute does, with the flag set
inspect_all_marks ==
    \E c \in InspectAllOutcomes :
        /\ Idle
        /\ call' = c
        /\ Done
        /\ executed' = TRUE
        /\ UNCHANGED <<builder, cache, sender>>

\* lines 282-321
inspect_all ==
    \E c \in InspectAllOutcomes :
        /\ Idle
        /\ call' = c
        /\ Done
        /\ UNCHANGED <<executed, builder, cache, sender>>

(***************************************************************************)
(* Builder calls.                                                          *)
(***************************************************************************)
\* the call ends with result o of its last step
Apply(op, o) ==
    /\ commands' = o.s.commands
    /\ inputs' = o.s.inputs
    /\ registry' = o.s.registry
    /\ cache' = o.s.cache
    /\ call' = IF o.ok
               THEN Returned(op, 0, "", o.s.rpcs, NoGas,
                             [type |-> "Arguments", args |-> o.val])
               ELSE Raised(op, 0, "", o.error, o.msg, o.s.rpcs, NoGas)
    /\ Done
    /\ UNCHANGED <<executed, sender>>

\* assert not self._executed, "Transaction already executed"
Reject(op) ==
    /\ call' = AlreadyExecuted(op, 0, "")
    /\ Done
    /\ UNCHANGED <<executed, builder, cache, sender>>

\* the model takes builder calls between calls, while the log is short
Room == Idle /\ Len(commands) < MaxCmds

UserTargets == {"0xa::m::f", "0xa::m::g"}
MoveCallArguments ==
    {<<>>, <<IdItem("o2"), PureItem(1)>>, <<RecItem("o1"), IdItem("o1")>>}

\* move_call refusing once transaction data has been handed out
MoveCallGuardAssembled == ~executed /\ "data returned" \notin hist

\* line 506
MoveCallGuard == ~executed

\* lines 487-557
move_call ==
    /\ Room
    /\ \E target \in UserTargets, arguments \in MoveCallArguments :
          IF ~MoveCallGuard
          THEN Reject("move_call")
          ELSE \E o \in MoveCallBody(Here, target, arguments) : Apply("move_call", o)

\* item.__class__.__name__
ClassOf(item) ==
    CASE item.t = "id" -> "ObjectID"
      [] item.t = "rec" -> "ObjectRead"
      [] item.t = "pure" -> "SuiU64"
      [] OTHER -> "Argument"

\* self._PURE_CANDIDATES, restricted to the classes the model uses
PureCandidates == {"SuiU64"}

\* the vector made of whatever the list holds, its classes unchecked
MakeMoveVectorBodyUnchecked(s, items) ==
    IF items = <<>>
    THEN {Fail(s, "ValueError", "make_vector requires a non-empty list")}
    ELSE { IF r.ok THEN AppendCommand(r.s, "MakeMoveVec", "", r.val) ELSE r
           : r \in ResolveArguments(s, items) }

\* lines 449-480
MakeMoveVectorBody(s, items) ==
    LET nonargs == SelectIdx(items, {"id", "rec", "pure"}, 1)
    IN IF items = <<>>
       THEN {Fail(s, "ValueError", "make_vector requires a non-empty list")}
       ELSE IF nonargs = <<>>
       THEN {AppendCommand(s, "MakeMoveVec", "", items)}
       ELSE LET first_class == ClassOf(items[nonargs[1]])
            IN IF first_class \in PureCandidates
               THEN {Fail(s, "ValueError", "make_move_vec is for Objects only")}
               ELSE IF \E i \in 1..Len(items) :
                          ClassOf(items[i]) \notin {"Argument", first_class}
               THEN {Fail(s, "AssertionError", "Expected first_class")}
               ELSE { IF r.ok THEN AppendCommand(r.s, "MakeMoveVec", "", r.val) ELSE r
                      : r \in ResolveArguments(s, items) }

MakeMoveVectorItems ==
    {<<>>, <<ArgItem(GasCoin)>>, <<IdItem("o1"), IdItem("o2")>>,
     <<IdItem("o1"), PureItem(1)>>, <<PureItem(1)>>,
     <<IdItem("o1"), RecItem("o2")>>}

(***************************************************************************)
(* The other builder calls.  Each body starts after the assertion on       *)
(* self._executed, when the method has one.                                *)
(***************************************************************************)
\* a caller value is of one of the accepted coin classes
\* (str, ObjectID, ObjectRead, SuiCoinObject, bcs.Argument)
IsCoinLike(item) == item.t \in {"id", "rec", "arg"}

\* run _move_call after every successful result of outs, collecting handles
ThenMoveCall(outs, target, arguments) ==
    UNION { IF ~o.ok THEN {o}
            ELSE { IF r.ok THEN Ok(r.s, o.val \o r.val) ELSE r
                   : r \in InnerMoveCall(o.s, target, arguments) }
            : o \in outs }

\* resolve `items`, then _move_call(target, resolved)
ResolveThenMoveCall(s, target, items) ==
    UNION { IF ~r.ok THEN {r} ELSE InnerMoveCall(r.s, target, r.val)
            : r \in ResolveArguments(s, items) }

\* resolve `items`, then append one builder command over them
ResolveThenAppend(s, cmd, items) ==
    { IF r.ok THEN AppendCommand(r.s, cmd, "", r.val) ELSE r
      : r \in ResolveArguments(s, items) }

\* lines 918-939
SplitCoinBody(s, coin, amounts) ==
    IF ~IsCoinLike(coin)
    THEN {Fail(s, "AssertionError", "invalid coin object type")}
    ELSE { IF r.ok THEN AppendCommand(r.s, "SplitCoin", "", r.val \o amounts) ELSE r
           : r \in ResolveArguments(s, <<coin>>) }

\* lines 964-989
SplitCoinEqualBody(s, coin, split_count) ==
    IF ~IsCoinLike(coin)
    THEN {Fail(s, "AssertionError", "invalid coin object type")}
    ELSE ResolveThenMoveCall(s, "0x2::pay::divide_and_keep",
                             <<coin, PureBuilderArg(split_count)>>)

RECURSIVE RemoveEach(_, _, _)
\* lines 1049-1059: one vector::remove call per new coin
RemoveEach(outs, result_vector, n) ==
    IF n = 0 THEN outs
    ELSE RemoveEach(ThenMoveCall(outs, "0x1::vector::remove",
                                 <<result_vector, PureBuilderArg(0)>>),
                    result_vector, n - 1)

\* lines 1060-1065: destroy the emptied vector, return the new coins only
DestroyEmpty(outs, result_vector) ==
    UNION { IF ~o.ok THEN {o}
            ELSE { IF r.ok THEN Ok(r.s, o.val) ELSE r
                   : r \in InnerMoveCall(o.s, "0x1::vector::destroy_empty",
                                         <<result_vector>>) }
            : o \in outs }

\* a split of one accepted
SplitCountBelowOne(split_count) == split_count < 1

\* line 1019
SplitCountTooSmall(split_count) == split_count < 2

\* lines 1009-1065
SplitCoinAndReturnBody(s, coin, split_count) ==
    IF ~IsCoinLike(coin)
    THEN {Fail(s, "AssertionError", "invalid coin object type")}
    ELSE IF SplitCountTooSmall(split_count)
    THEN {Fail(s, "ValueError", "Split count must be greater than 1")}
    ELSE UNION { IF ~v.ok THEN {v}
                 ELSE DestroyEmpty(RemoveEach({Ok(v.s, <<>>)}, v.val[1],
                                              split_count - 1), v.val[1])
                 : v \in ResolveThenMoveCall(s, "0x2::coin::divide_into_n",
                                            <<coin, PureBuilderArg(split_count)>>) }

\* lines 1089-1119: merge_from is checked after merge_to has been resolved
MergeCoinsBody(s, merge_to, merge_from) ==
    IF ~IsCoinLike(merge_to)
    THEN {Fail(s, "AssertionError", "Unsupported type for merge_to")}
    ELSE UNION { IF ~t.ok THEN {t}
                 ELSE IF \E i \in 1..Len(merge_from) : ~IsCoinLike(merge_from[i])
                 THEN {Fail(t.s, "AssertionError", "Unsupported entry in merge_from")}
                 ELSE { IF f.ok
                        THEN AppendCommand(f.s, "MergeCoins", "", t.val \o f.val)
                        ELSE f
                        : f \in ResolveArguments(t.s, merge_from) }
                 : t \in ResolveArguments(s, <<merge_to>>) }

\* lines 1177-1201
TransferObjectsBody(s, transfers, recipient) ==
    IF \E i \in 1..Len(transfers) : ~IsCoinLike(transfers[i])
    THEN {Fail(s, "AssertionError", "Unsupported entry in transfers")}
    ELSE { IF r.ok
           THEN AppendCommand(r.s, "TransferObjects", "",
                              <<PureBuilderArg(recipient)>> \o r.val)
           ELSE r
           : r \in ResolveArguments(s, transfers) }

\* lines 1225-1241; no_coin stands for a falsy from_coin
TransferSuiBody(s, recipient, from_coin, no_coin, amount) ==
    IF no_coin
    THEN {Fail(s, "ValueError", "Invalid 'from_coin'")}
    ELSE { IF r.ok
           THEN AppendCommand(r.s, "TransferSui", "",
                    <<PureBuilderArg(recipient)>> \o r.val
                    \o (IF amount # 0 THEN <<PureBuilderArg(amount)>> ELSE <<>>))
           ELSE r
           : r \in ResolveArguments(s, <<from_coin>>) }

\* lines 836-853: the vector of coins is built by make_move_vector first
StakeCoinBody(s, coins, validator_address, amount) ==
    UNION { IF ~v.ok THEN {v}
            ELSE ResolveThenMoveCall(v.s,
                     "0x3::sui_system::request_add_stake_mul_coin",
                     <<IdItem("0x5"), v.val[1], PureItem(amount),
                       PureItem(validator_address)>>)
            : v \in MakeMoveVectorBody(s, coins) }

\* the unstake request made whatever the status of the staked coin
UnstakeCoinBodyAnyStatus(s, staked_coin) ==
    ResolveThenMoveCall(s, "0x3::sui_system::request_withdraw_stake",
                        <<IdItem("0x5"), IdItem(staked_coin.o)>>)

\* lines 866-883; a StakedSui record is [t |-> "staked", o, status]
UnstakeCoinBody(s, staked_coin) ==
    IF staked_coin.t = "staked" /\ staked_coin.status = "Pending"
    THEN {Fail(s, "ValueError", "Can not unstake non-activated staked coin")}
    ELSE ResolveThenMoveCall(s, "0x3::sui_system::request_withdraw_stake",
                             <<IdItem("0x5"), IdItem(staked_coin.o)>>)

\* self._compile_source: raises when the project does not build
CompileOutcomes == {"ok", "no build folder"}

\* lines 638-645
PublishBody(s, compiled) ==
    IF compiled # "ok"
    THEN {Fail(s, "SuiMiisingBuildFolder", compiled)}
    ELSE {AppendCommand(s, "Publish", "", <<>>)}

\* lines 647-660: the responses get_object may give for the capability
VerifyUpgradeCap(s, upgrade_cap) ==
    {Fail(Sent(s, Rpc("get_object", <<upgrade_cap>>, "not_ok", 0)),
          "ValueError", "Error in finding UpgradeCap"),
     Fail(Sent(s, Rpc("get_object", <<upgrade_cap>>, "not_exist", 0)),
          "ValueError", "Error in finding UpgradeCap"),
     Fail(Sent(s, Rpc("get_object", <<upgrade_cap>>, "other_type", 0)),
          "ValueError", "not recognized as UpgradeCap"),
     Ok(Sent(s, Rpc("get_object", <<upgrade_cap>>, "ok", 0)),
        <<RecItem(upgrade_cap)>>)}

\* the commit made on the ticket of the authorization, not on the receipt
UpgradeCommandsCommitTicket(s, capability_arg) ==
    LET cap_arg == Len(s.inputs)
        auth_cmd == AppendCommand(s, "MoveCall", "0x2::package::authorize_upgrade",
                                  capability_arg)
        receipt == AppendCommand(auth_cmd.s, "Upgrade", "", auth_cmd.val)
    IN AppendCommand(receipt.s, "MoveCall", "0x2::package::commit_upgrade",
                     <<ArgItem(InputArg(cap_arg))>> \o auth_cmd.val)

\* lines 729-743: authorize, upgrade, commit; the capability is referred to
\* by the length the input table had before authorize_upgrade
UpgradeCommands(s, capability_arg) ==
    LET cap_arg == Len(s.inputs)
        auth_cmd == AppendCommand(s, "MoveCall", "0x2::package::authorize_upgrade",
                                  capability_arg)
        receipt == AppendCommand(auth_cmd.s, "Upgrade", "", auth_cmd.val)
    IN AppendCommand(receipt.s, "MoveCall", "0x2::package::commit_upgrade",
                     <<ArgItem(InputArg(cap_arg))>> \o receipt.val)

\* lines 699-743
PublishUpgradeBody(s, compiled, upgrade_cap) ==
    IF compiled # "ok"
    THEN {Fail(s, "SuiMiisingBuildFolder", compiled)}
    ELSE UNION { IF ~c.ok THEN {c}
                 ELSE { IF r.ok THEN UpgradeCommands(r.s, r.val) ELSE r
                        : r \in ResolveArguments(c.s,
                              <<c.val[1], PureItem(0), PureItem(1)>>) }
                 : c \in VerifyUpgradeCap(s, upgrade_cap) }

\* what a caller-supplied upgrade hook does with the transaction it is
\* given: it calls move_call on it, or it returns an Argument it holds
HookKinds == {"move_call", "argument"}

\* move_call as a hook calls it: lines 506-557
HookMoveCall(s, target, arguments) ==
    IF ~MoveCallGuard
    THEN {Fail(s, "AssertionError", "Transaction already executed")}
    ELSE MoveCallBody(s, target, arguments)

\* lines 807 and 816
Hook(s, kind, target, arguments) ==
    IF kind = "move_call"
    THEN HookMoveCall(s, target, arguments)
    ELSE {Ok(s, <<ArgItem(GasCoin)>>)}

\* lines 787-816
CustomUpgradeBody(s, compiled, upgrade_cap, authorize_fn, commit_fn) ==
    IF compiled # "ok"
    THEN {Fail(s, "SuiMiisingBuildFolder", compiled)}
    ELSE UNION { IF ~c.ok THEN {c}
                 ELSE UNION { IF ~t.ok THEN {t}
                              ELSE LET receipt == AppendCommand(t.s, "Upgrade", "",
                                                                t.val)
                                   IN Hook(receipt.s, commit_fn,
                                           "0xa::policy::commit",
                                           <<c.val[1]>> \o receipt.val)
                              : t \in Hook(c.s, authorize_fn,
                                          "0xa::policy::authorize",
                                          <<c.val[1], PureItem(1)>>) }
                 : c \in VerifyUpgradeCap(s, upgrade_cap) }

\* lines 435-480: no assertion on self._executed
make_move_vector ==
    /\ Room
    /\ \E items \in MakeMoveVectorItems :
       \E o \in MakeMoveVectorBody(Here, items) : Apply("make_move_vector", o)

\* the assertion the other builder methods start with (lines 638, 699, 836,
\* 866, 918, 964, 1009, 1089, 1177, 1225)
NotExecuted == ~executed

StakedSui(o, status) == [t |-> "staked", o |-> o, status |-> status]

\* lines 888-939
split_coin ==
    /\ Room
    /\ \E coin \in {IdItem("o1"), ArgItem(GasCoin), PureItem(1)} :
          IF ~NotExecuted
          THEN Reject("split_coin")
          ELSE \E o \in SplitCoinBody(Here, coin, <<PureBuilderArg(1)>>) :
                  Apply("split_coin", o)

\* lines 945-989
split_coin_equal ==
    /\ Room
    /\ \E coin \in {IdItem("o1"), RecItem("o2")} :
          IF ~NotExecuted
          THEN Reject("split_coin_equal")
          ELSE \E o \in SplitCoinEqualBody(Here, coin, 2) :
                  Apply("split_coin_equal", o)

\* lines 991-1065
split_coin_and_return ==
    /\ Room
    /\ \E split_count \in {1, 2, 3} :
          IF ~NotExecuted
          THEN Reject("split_coin_and_return")
          ELSE \E o \in SplitCoinAndReturnBody(Here, IdItem("o1"), split_count) :
                  Apply("split_coin_and_return", o)

\* lines 1067-1119
merge_coins ==
    /\ Room
    /\ \E merge_from \in {<<IdItem("c2")>>, <<PureItem(1)>>} :
          IF ~NotExecuted
          THEN Reject("merge_coins")
          ELSE \E o \in MergeCoinsBody(Here, IdItem("o1"), merge_from) :
                  Apply("merge_coins", o)

\* lines 1157-1201
transfer_objects ==
    /\ Room
    /\ \E transfers \in {<<IdItem("o1")>>, <<RecItem("o2"), IdItem("o3")>>,
                         <<PureItem(1)>>} :
          IF ~NotExecuted
          THEN Reject("transfer_objects")
          ELSE \E o \in TransferObjectsBody(Here, transfers, 7) :
                  Apply("transfer_objects", o)

\* lines 1203-1241
transfer_sui ==
    /\ Room
    /\ \E no_coin \in BOOLEAN, amount \in {0, 1} :
          IF ~NotExecuted
          THEN Reject("transfer_sui")
          ELSE \E o \in TransferSuiBody(Here, 7, IdItem("o1"), no_coin, amount) :
                  Apply("transfer_sui", o)

\* lines 818-853
stake_coin ==
    /\ Room
    /\ \E coins \in {<<IdItem("o1")>>, <<>>} :
          IF ~NotExecuted
          THEN Reject("stake_coin")
          ELSE \E o \in StakeCoinBody(Here, coins, 9, 0) : Apply("stake_coin", o)

\* lines 855-883
unstake_coin ==
    /\ Room
    /\ \E staked_coin \in {IdItem("s1"), StakedSui("s1", "Pending"),
                           StakedSui("s1", "Active")} :
          IF ~NotExecuted
          THEN Reject("unstake_coin")
          ELSE \E o \in UnstakeCoinBody(Here, staked_coin) : Apply("unstake_coin", o)

\* lines 617-645
publish ==
    /\ Room
    /\ \E compiled \in CompileOutcomes :
          IF ~NotExecuted
          THEN Reject("publish")
          ELSE \E o \in PublishBody(Here, compiled) : Apply("publish", o)

\* lines 670-743
publish_upgrade ==
    /\ Room
    /\ \E compiled \in CompileOutcomes :
          IF ~NotExecuted
          THEN Reject("publish_upgrade")
          ELSE \E o \in PublishUpgradeBody(Here, compiled, "cap") :
                  Apply("publish_upgrade", o)

MaxLog == 4

\* the upgrade calls taken while the log is short, whatever it holds
LogRoom == Idle /\ Len(commands) < MaxLog

\* lines 670-743, on a log that may hold the commands of an earlier upgrade
publish_upgrade_again ==
    /\ LogRoom
    /\ \E compiled \in CompileOutcomes :
          IF ~NotExecuted
          THEN Reject("publish_upgrade")
          ELSE \E o \in PublishUpgradeBody(Here, compiled, "cap") :
                  Apply("publish_upgrade", o)

\* lines 746-816, on a log that may hold the commands of an earlier upgrade
custom_upgrade_again ==
    /\ LogRoom
    /\ \E compiled \in CompileOutcomes, authorize_fn \in HookKinds,
          commit_fn \in HookKinds :
       \E o \in CustomUpgradeBody(Here, compiled, "cap", authorize_fn, commit_fn) :
          Apply("custom_upgrade", o)

NextUpgrade ==
    \/ publish_upgrade_again
    \/ custom_upgrade_again
    \/ Return

SpecUpgrade == Init /\ [][NextUpgrade]_vars

\* lines 746-816: no assertion on self._executed
custom_upgrade ==
    /\ Room
    /\ \E compiled \in CompileOutcomes, authorize_fn \in HookKinds,
          commit_fn \in HookKinds :
       \E o \in CustomUpgradeBody(Here, compiled, "cap", authorize_fn, commit_fn) :
          Apply("custom_upgrade", o)

(***************************************************************************)
(* _resolve_arguments called on its own, over every short argument list.   *)
(***************************************************************************)
\* the arguments a caller may put in a list: raw identifiers, records the
\* caller fetched before, a scalar, an Argument
ResolveUniverse ==
    {IdItem("o1"), IdItem("o2"), IdItem("o3"), RecItem("o3"), RecItem("pkg"),
     PureItem(1), ArgItem(GasCoin)}

RECURSIVE Lists(_)
\* the argument lists of at most n items
Lists(n) ==
    IF n = 0 THEN {<<>>}
    ELSE LET shorter == Lists(n - 1)
         IN shorter \cup {Append(l, x) : l \in shorter, x \in ResolveUniverse}

\* the completed call: the list given and the list returned
Resolution(items, r) ==
    [op |-> "_resolve_arguments", budget |-> 0, ugo |-> "",
     outcome |-> IF r.ok THEN "returned" ELSE "raised",
     error |-> r.error, msg |-> r.msg, rpcs |-> r.s.rpcs, gas |-> NoGas,
     ret |-> [type |-> "list", items |-> items, val |-> r.val]]

\* lines 380-388
resolve_arguments ==
    /\ Idle
    /\ \E items \in Lists(MaxItems) :
       \E r \in ResolveArguments(Here, items) :
          /\ call' = Resolution(items, r)
          /\ commands' = r.s.commands
          /\ inputs' = r.s.inputs
          /\ registry' = r.s.registry
          /\ cache' = r.s.cache
    /\ Done
    /\ UNCHANGED <<executed, sender>>

NextResolve ==
    \/ resolve_arguments
    \/ Return

SpecResolve == Init /\ [][NextResolve]_vars

(***************************************************************************)
(* The marking step of move_call on its own: the arguments are resolved,   *)
(* then marked against the parameters the target declares.                 *)
(***************************************************************************)
RECURSIVE Flags(_)
\* the parameter lists of n parameters: is_mutable per position
Flags(n) ==
    IF n = 0 THEN {<<>>}
    ELSE {Append(f, b) : f \in Flags(n - 1), b \in BOOLEAN}

\* the list the caller passed, after the step: lines 349-350 and 370-375 assign
\* into it, line 388 returns it, line 523 keeps it, and the loop of lines
\* 526-534 marks its pairs up to the first position without a parameter
InPlace(resolved, parameters) ==
    LET n == IF Len(resolved) <= Len(parameters) THEN Len(resolved)
             ELSE Len(parameters)
    IN MarkRefs(resolved, MutableRefs(SubSeq(resolved, 1, n), parameters))

\* the completed step: the list given, the parameters, the list as resolved,
\* the list as marked, and the caller's list
Marking(items, parameters, r, m) ==
    [op |-> "mark_arguments", budget |-> 0, ugo |-> "",
     outcome |-> IF m.ok THEN "returned" ELSE "raised",
     error |-> m.error, msg |-> m.msg, rpcs |-> m.s.rpcs, gas |-> NoGas,
     ret |-> [type |-> "marked", items |-> items, parameters |-> parameters,
              val |-> r.val, marked |-> m.val,
              arguments |-> InPlace(r.val, parameters)]]

\* lines 525-534, for the resolutions that succeed; the target declares as
\* many parameters as there are arguments, or one fewer
mark_arguments ==
    /\ Idle
    /\ \E items \in Lists(MaxItems) :
       \E r \in {x \in ResolveArguments(Here, items) : x.ok} :
       \E parameters \in Flags(Len(items))
                          \cup (IF items # <<>> THEN Flags(Len(items) - 1) ELSE {}) :
          /\ call' = Marking(items, parameters, r,
                             MarkMutable(r.s, r.val, parameters))
          /\ UNCHANGED <<commands, inputs, registry, cache>>
    /\ Done
    /\ UNCHANGED <<executed, sender>>

NextMark ==
    \/ mark_arguments
    \/ Return

SpecMark == Init /\ [][NextMark]_vars

(***************************************************************************)
(* sui_utils: int_to_listu8                                                *)
(***************************************************************************)
\* the result of a utility: the value it returns or the error it raises
Value(v) == [ok |-> TRUE, error |-> "none", val |-> v]
Raise(err) == [ok |-> FALSE, error |-> err, val |-> <<>>]

\* the completed call of a utility on `args`
Utility(op, args, r) ==
    [op |-> op, budget |-> 0, ugo |-> "",
     outcome |-> IF r.ok THEN "returned" ELSE "raised",
     error |-> r.error, msg |-> "", rpcs |-> <<>>, gas |-> NoGas,
     ret |-> [type |-> "utility", args |-> args, val |-> r.val]]

MaxBytes == 2

\* the integers tried: the ends of the one, two and three byte ranges
Integers8 == {0, 1, 2, 127, 128, 255, 256, 257, 511, 512, 4660, 32768, 65535,
              65536, 65537, 16777215, 16777216}

RECURSIVE bit_length(_)
\* int.bit_length() of a non-negative integer
bit_length(n) == IF n = 0 THEN 0 ELSE 1 + bit_length(n \div 2)

RECURSIVE to_bytes(_, _)
\* int.to_bytes(length, "little") of an integer that fits
to_bytes(n, length) ==
    IF length = 0 THEN <<>> ELSE <<n % 256>> \o to_bytes(n \div 256, length - 1)

\* lines 196-200
int_to_listu8(byte_count, in_el) ==
    LET byte_res == (bit_length(in_el) + 7) \div 8
    IN IF byte_res = byte_count
       THEN Value(to_bytes(in_el, byte_res))
       ELSE Raise("ValueError")

call_int_to_listu8 ==
    /\ Idle
    /\ \E byte_count \in 0..MaxBytes, in_el \in Integers8 :
          call' = Utility("int_to_listu8", <<byte_count, in_el>>,
                          int_to_listu8(byte_count, in_el))
    /\ Done
    /\ UNCHANGED <<executed, builder, cache, sender>>

NextBytes ==
    \/ call_int_to_listu8
    \/ Return

SpecBytes == Init /\ [][NextBytes]_vars

(***************************************************************************)
(* sui_utils: the coercion utilities.  A value is known by its class and,  *)
(* for text, by whether it has the form of an address.                     *)
(***************************************************************************)
Classes ==
    {"SuiAddress", "ObjectID", "SuiString", "SuiTransactionDigest", "SuiArray",
     "str", "int", "list", "tuple", "float", "dict", "NoneType"}

InData == [class : Classes, valid : BOOLEAN]

\* the value built by class `class` out of in_data
Coerced(class, in_data) == [class |-> class, of |-> in_data.class]

\* `result` is read at `if not result` without having been assigned
UnassignedResult == Raise("UnboundLocalError")

\* lines 216-230
as_sui_address(in_data) ==
    CASE in_data.class = "SuiAddress" -> Value(Coerced("SuiAddress", in_data))
      [] in_data.class \in {"ObjectID", "SuiString", "str"} ->
            IF in_data.valid                      \* valid_sui_address(...)
            THEN Value(Coerced("SuiAddress", in_data))
            ELSE Raise("ValueError")
      [] OTHER -> UnassignedResult

\* lines 274-284
as_sui_string(in_data) ==
    CASE in_data.class \in {"SuiString", "str", "int", "SuiAddress"} ->
            Value(Coerced("SuiString", in_data))
      [] OTHER -> UnassignedResult

\* lines 318-326
as_sui_array(in_data) ==
    CASE in_data.class \in {"SuiArray", "list", "tuple"} ->
            Value(Coerced("SuiArray", in_data))
      [] OTHER -> UnassignedResult

\* lines 452-460
as_sui_txdigest(in_data) ==
    CASE in_data.class \in {"SuiTransactionDigest", "SuiString", "str"} ->
            Value(Coerced("SuiTransactionDigest", in_data))
      [] OTHER -> UnassignedResult

Coercions == {"as_sui_address", "as_sui_string", "as_sui_array", "as_sui_txdigest"}

Coerce(utility, in_data) ==
    CASE utility = "as_sui_address" -> as_sui_address(in_data)
      [] utility = "as_sui_string" -> as_sui_string(in_data)
      [] utility = "as_sui_array" -> as_sui_array(in_data)
      [] OTHER -> as_sui_txdigest(in_data)

call_coercion ==
    /\ Idle
    /\ \E utility \in Coercions, in_data \in InData :
          call' = Utility(utility, <<in_data>>, Coerce(utility, in_data))
    /\ Done
    /\ UNCHANGED <<executed, builder, cache, sender>>

NextCoerce ==
    \/ call_coercion
    \/ Return

SpecCoerce == Init /\ [][NextCoerce]_vars

(***************************************************************************)
(* execute() as the event loop runs it: a coroutine gives way at its       *)
(* awaits, where another execute() on the same object may run.  The awaits *)
(* inside _build_for_execute are taken as one.                             *)
(***************************************************************************)
At(t, pos) == tasks.pc[t] = pos

Goto(t, pos, sent) ==
    tasks' = [pc |-> [tasks.pc EXCEPT ![t] = pos], rpcs |-> tasks.rpcs \o sent]

\* lines 262-264: the assertion, up to the await of _build_for_execute
execute_begin(t) ==
    /\ At(t, "start")
    /\ Goto(t, IF ExecuteGuard THEN "building" ELSE "raised", <<>>)
    /\ UNCHANGED <<executed, builder, cache, sender, call, hist, prev>>

\* lines 264-274: _build_for_execute answers, the transaction is signed and
\* the submission is sent, up to the await of client.execute
execute_build(t) ==
    /\ At(t, "building")
    /\ \E gas_budget \in Budgets :
       \E b \in BuildForExecute(gas_budget, "") :
          IF b.ok
          THEN Goto(t, "submitting",
                    b.rpcs \o <<Rpc("submit", <<b.ret.sender>>, "sent", t)>>)
          ELSE Goto(t, "raised", b.rpcs)
    /\ executed' = ExecutedAfterBuildError
    /\ UNCHANGED <<builder, cache, sender, call, hist, prev>>

\* lines 274-276: the submission answers
execute_finish(t) ==
    /\ At(t, "submitting")
    /\ \E s \in SubmitResponses :
          IF s = "raise"
          THEN Goto(t, "raised", <<>>) /\ UNCHANGED executed
          ELSE Goto(t, "returned", <<>>) /\ executed' = ExecutedAfterSubmit(s)
    /\ UNCHANGED <<builder, cache, sender, call, hist, prev>>

NextInterleave ==
    \E t \in Tasks :
        \/ execute_begin(t)
        \/ execute_build(t)
        \/ execute_finish(t)

SpecInterleave == Init /\ [][NextInterleave]_vars

(***************************************************************************)
(* sui_apidesc: _resolve_param_type and build_api_descriptors.  A schema   *)
(* is known by the key the resolver tests and the name it refers to.       *)
(* tpath only accumulates and is never tested: the schema being resolved   *)
(* alone decides the next step.                                            *)
(***************************************************************************)
SchemaNames == {"A", "B"}

Schema(k, to) == [k |-> k, to |-> to]

\* {"type": "string"}, a type the match does not know, {}, a dict with none
\* of the keys; {"type": "array", "items": {"$ref": to}}, {"$ref": to},
\* {"allOf": [{"$ref": to}]}, {"oneOf": [{"$ref": to}]}
Schemas ==
    {Schema(k, "") : k \in {"string", "unknown", "empty", "invalid"}}
    \cup {Schema(k, to) : k \in {"array", "$ref", "allOf", "oneOf"},
                          to \in SchemaNames \cup {"missing"}}

\* the dictionaries tried: schemas refer to each other, to a name the
\* dictionary does not hold, or to nothing
SchemaDicts ==
    {d \in [SchemaNames -> Schemas] : \A n \in SchemaNames : d[n].to # n}

\* schema_dict.get(last): None for a name the dictionary does not hold
Get(schema_dict, last) ==
    IF last \in DOMAIN schema_dict THEN schema_dict[last] ELSE Schema("None", "")

\* the resolver at work: the dictionary, the schema its innermost call was
\* given, the schemas build_api_descriptors has still to resolve
Resolving(schema_dict, indata, todo) ==
    [op |-> "build_api_descriptors", budget |-> 0, ugo |-> "",
     outcome |-> "running", error |-> "none", msg |-> "", rpcs |-> <<>>,
     gas |-> NoGas,
     ret |-> [type |-> "resolving", schema_dict |-> schema_dict,
              indata |-> indata, todo |-> todo]]

\* lines 119-175: one call of _resolve_param_type on indata; it returns a
\* type, raises, or calls itself on another schema
ResolveParamType(schema_dict, indata) ==
    CASE indata.k = "None" -> Raise("TypeError")                \* "type" in None
      [] indata.k = "string" -> Value(<<"SuiJsonString">>)
      [] indata.k = "unknown" -> Raise("NotImplementedError")
      [] indata.k \in {"array", "oneOf"} ->
            [ok |-> TRUE, error |-> "none", val |-> <<>>,
             indata |-> Schema("$ref", indata.to)]
      [] indata.k \in {"$ref", "allOf"} ->
            [ok |-> TRUE, error |-> "none", val |-> <<>>,
             indata |-> Get(schema_dict, indata.to)]
      [] indata.k = "empty" -> Value(<<"SuiJsonValue">>)
      [] OTHER -> Raise("SuiParamSchemaInvalid")

\* lines 187-206: the descriptors of one method with one parameter; the
\* parameter's schema is resolved first, then the result's
build_api_descriptors ==
    /\ Idle
    /\ \E valid \in BOOLEAN, schema_dict \in SchemaDicts,
          param \in Schemas, result \in {Schema("string", ""), Schema("$ref", "A")} :
          call' = IF valid
                  THEN Resolving(schema_dict, param, <<result>>)
                  ELSE Raised("build_api_descriptors", 0, "",
                              "SuiApiDefinitionInvalid", "", <<>>, NoGas)
    /\ Done
    /\ UNCHANGED <<executed, builder, cache, sender>>

\* the innermost call of _resolve_param_type runs
resolve_param_type ==
    /\ call.op = "build_api_descriptors"
    /\ call.outcome = "running"
    /\ LET at == call.ret
           r == ResolveParamType(at.schema_dict, at.indata)
       IN call' = IF ~r.ok
                  THEN Raised("build_api_descriptors", 0, "", r.error, "", <<>>,
                              NoGas)
                  ELSE IF r.val = <<>>
                  THEN Resolving(at.schema_dict, r.indata, at.todo)
                  ELSE IF at.todo # <<>>
                  THEN Resolving(at.schema_dict, Head(at.todo), Tail(at.todo))
                  ELSE Returned("build_api_descriptors", 0, "", <<>>, NoGas,
                                [type |-> "descriptors"])
    /\ Done
    /\ UNCHANGED <<executed, builder, cache, sender>>

NextSchema ==
    \/ build_api_descriptors
    \/ resolve_param_type

\* a call that has begun keeps running
SpecSchema == Init /\ [][NextSchema]_vars /\ WF_vars(resolve_param_type)

BuilderOps ==
    {"move_call", "make_move_vector", "split_coin", "split_coin_equal",
     "split_coin_and_return", "merge_coins", "transfer_objects", "transfer_sui",
     "stake_coin", "unstake_coin", "publish", "publish_upgrade", "custom_upgrade"}

Next ==
    \/ get_transaction_data
    \/ execute
    \/ inspect_all
    \/ move_call
    \/ make_move_vector
    \/ split_coin
    \/ split_coin_equal
    \/ split_coin_and_return
    \/ merge_coins
    \/ transfer_objects
    \/ transfer_sui
    \/ stake_coin
    \/ unstake_coin
    \/ publish
    \/ publish_upgrade
    \/ custom_upgrade
    \/ Return

Spec == Init /\ [][Next]_vars

(***************************************************************************)
(* Properties.  A completed call is the record in `call`; a step that      *)
(* completes a call is one with call' # IdleCall.                          *)
(***************************************************************************)
\* the requests of kind `req` the completed call c issued
Requests(c, req) == {i \in 1..Len(c.rpcs) : c.rpcs[i].req = req}

\* the budget the caller asked for (execute's default when falsy)
Requested(c) == IF c.budget = 0 THEN DefaultBudget ELSE c.budget

\* c is a build call whose dry-run answered `resp`
DryRun(c, resp) ==
    /\ c.op \in {"get_transaction_data", "execute"}
    /\ Len(c.rpcs) >= 1
    /\ c.rpcs[1].req = "inspect"
    /\ c.rpcs[1].resp = resp

\* C1: once an execute() call has returned, every later execute() call fails
\* with the 'Transaction already executed' assertion error, issues no dry-run
\* and no submission, and leaves the object as it was.
C1_ExecuteOnce ==
    [][("execute returned" \in hist /\ call'.op = "execute")
        => /\ call'.outcome = "raised"
           /\ call'.error = "AssertionError"
           /\ call'.msg = "Transaction already executed"
           /\ Requests(call', "inspect") = {}
           /\ Requests(call', "submit") = {}
           /\ call'.rpcs = <<>>
           /\ UNCHANGED <<executed, commands, inputs, registry>>]_vars

C1_Witness ==
    /\ "execute returned" \in hist
    /\ call.op = "execute"
    /\ call.outcome = "raised"
    /\ call.msg = "Transaction already executed"

\* C2 (as the claim states it): once execute() has returned, every builder
\* call fails with the already-executed assertion error before any remote
\* request and without appending a command or an input.
C2_BuildersRejected ==
    [][("execute returned" \in hist /\ call'.op \in BuilderOps)
        => /\ call'.outcome = "raised"
           /\ call'.error = "AssertionError"
           /\ call'.msg = "Transaction already executed"
           /\ call'.rpcs = <<>>
           /\ commands' = commands
           /\ inputs' = inputs]_vars

\* C3: when the submission of execute() returns a result, ok or not, the
\* transaction is Executed, the result is the value of the call, and the
\* call has submitted exactly once.
C3_ExecutedOnAnyResult ==
    \A i \in Requests(call, "submit") :
        call.rpcs[i].resp \in {"ok", "not_ok"}
        => /\ executed
           /\ call.op = "execute"
           /\ call.outcome = "returned"
           /\ call.ret.type = "SuiRpcResult"
           /\ call.ret.ok = (call.rpcs[i].resp = "ok")
           /\ Requests(call, "submit") = {i}

C3_Witness ==
    /\ call.op = "execute"
    /\ call.outcome = "returned"
    /\ ~call.ret.ok
    /\ executed
    /\ \E i \in Requests(call, "submit") : call.rpcs[i].resp = "not_ok"

\* C4 (as the claim states it): after get_transaction_data has returned, the
\* object is Assembled: no builder call appends any more, and a later
\* get_transaction_data or execute does not build the data again.
C4_Assembled ==
    [][("data returned" \in hist /\ call' # IdleCall)
        => /\ commands' = commands
           /\ inputs' = inputs
           /\ (call'.op \in {"get_transaction_data", "execute"}
               => Requests(call', "inspect") = {})]_vars

\* C4 (amended): get_transaction_data changes neither the command log, the
\* inputs nor the executed flag; after it has returned, builder calls are
\* rejected as already executed only if execute has returned, and every later
\* get_transaction_data or execute that yields transaction data has run the
\* dry-run again and carries the command log as it stands at that call.
C4_StillBuilding ==
    [][/\ (call'.op = "get_transaction_data"
             => UNCHANGED <<executed, commands, inputs, registry>>)
       /\ ("data returned" \in hist /\ "execute returned" \notin hist
             /\ call'.op \in BuilderOps
             => call'.msg # "Transaction already executed")
       /\ ("data returned" \in hist /\ call'.outcome = "returned"
             /\ call'.op \in {"get_transaction_data", "execute"}
             => LET data == IF call'.op = "execute" THEN call'.ret.tx ELSE call'.ret
                IN /\ DryRun(call', "ok")
                   /\ data.type = "TransactionData"
                   /\ data.kind.commands = commands
                   /\ data.kind.inputs = inputs)]_vars

C4_Witness ==
    /\ "data returned" \in hist
    /\ "execute returned" \notin hist
    /\ call.op \in BuilderOps
    /\ call.outcome = "returned"
    /\ Len(commands) > 0

\* C5: an execute() call that fails while the gas is resolved has submitted
\* nothing, leaves the transaction not Executed and the commands and inputs
\* as they were; builder calls and execute() are accepted afterwards.
C5_GasFailureKeepsBuilding ==
    [][/\ (GasFailure(call')
             => /\ Requests(call', "submit") = {}
                /\ ~executed'
                /\ UNCHANGED <<commands, inputs, registry>>)
       /\ ("gas failed" \in hist /\ "execute returned" \notin hist
             /\ call' # IdleCall
             => call'.msg # "Transaction already executed")]_vars

C5_Witness ==
    /\ "gas failed" \in hist
    /\ call.op = "execute"
    /\ call.outcome = "returned"
    /\ Len(commands) > 0

\* C6: inspect_all never marks the transaction Executed and leaves the
\* commands, the inputs and the registry unchanged, whatever the inspection
\* answers.
C6_InspectAllFrame ==
    [][call'.op = "inspect_all"
        => UNCHANGED <<executed, commands, inputs, registry, cache, sender>>]_vars

C6_Witness ==
    /\ call.op = "inspect_all"
    /\ call.outcome = "returned"
    /\ Len(commands) > 0
    /\ ~executed

\* C7: with C the gas the dry-run reports and B the budget the caller asked
\* for, the budget of the gas data is the larger of the two, with an explicit
\* gas object and with the payment the signer block selects.
C7_BudgetIsMax ==
    (call.op \in {"get_transaction_data", "execute"} /\ call.gas # NoGas)
    => /\ DryRun(call, "ok")
       /\ LET C == call.rpcs[1].n
              B == Requested(call)
          IN /\ call.gas.budget >= C
             /\ call.gas.budget >= B
             /\ call.gas.budget \in {C, B}

C7_Witness ==
    /\ call.op = "execute"
    /\ call.outcome = "returned"
    /\ call.ugo # ""
    /\ call.budget = 2
    /\ call.rpcs[1].n = 3
    /\ call.gas.budget = 3

\* C8 (as the claim states it): a malformed dry-run response, the KeyError
\* arising while the client call is awaited or while the result is parsed,
\* makes the build fail with an error of the ValueError class.
C8_MalformedIsValueError ==
    (DryRun(call, "raise_KeyError") \/ DryRun(call, "ok_malformed"))
    => /\ call.outcome = "raised"
       /\ call.error = "ValueError"

\* C9: a dry-run that returns a not-ok result makes get_transaction_data and
\* execute fail with a ValueError carrying the service's error string; no gas
\* object is fetched or selected, no transaction data exists and nothing is
\* submitted.
C9_DryRunErrorFailsClosed ==
    DryRun(call, "not_ok")
    => /\ call.outcome = "raised"
       /\ call.error = "ValueError"
       /\ call.msg = InspectErrorString
       /\ Len(call.rpcs) = 1
       /\ call.gas = NoGas
       /\ call.ret = NoRet

C9_Witness ==
    /\ DryRun(call, "not_ok")
    /\ call.op = "execute"
    /\ call.outcome = "raised"
    /\ ~executed

\* the completed call fetched its explicit gas coin, which is not an input of
\* the command log
ExplicitCoinFetched(c) ==
    /\ c.op \in {"get_transaction_data", "execute"}
    /\ c.ugo # ""
    /\ c.ugo \notin registry
    /\ DryRun(c, "ok")
    /\ Len(c.rpcs) >= 2
    /\ c.rpcs[2].req = "get_object"
    /\ c.rpcs[2].resp = "ok"

\* C10 (as the claim states it): with an explicit gas object that is not in
\* use, the resolution fails with the insufficient-gas error exactly when the
\* coin's balance is below the budget the caller asked for, and otherwise
\* the coin is the single payment of the gas data.
C10_BalanceAgainstRequested ==
    ExplicitCoinFetched(call)
    => LET balance == call.rpcs[2].n
       IN /\ (call.msg = "Insufficient gas") <=> (balance < Requested(call))
          /\ (balance >= Requested(call) => call.gas # NoGas)

\* C10 (amended): with an explicit gas object that is not in use, the
\* resolution fails with the insufficient-gas error exactly when the coin's
\* balance is below the resolved budget, the larger of the dry-run's gas and
\* the budget the caller asked for; otherwise the coin is the single payment
\* of the gas data, whose budget is the resolved one.
C10_BalanceAgainstResolved ==
    ExplicitCoinFetched(call)
    => LET balance == call.rpcs[2].n
           C == call.rpcs[1].n
           B == Requested(call)
           resolved == IF C > B THEN C ELSE B
       IN /\ (call.msg = "Insufficient gas") <=> (balance < resolved)
          /\ (balance < resolved => call.gas = NoGas /\ call.outcome = "raised")
          /\ (balance >= resolved
                => /\ call.gas # NoGas
                   /\ call.gas.payment = <<call.ugo>>
                   /\ call.gas.budget = resolved)

C10_Witness ==
    /\ ExplicitCoinFetched(call)
    /\ call.op = "execute"
    /\ call.budget = 2
    /\ call.rpcs[1].n = 3
    /\ call.rpcs[2].n = 3
    /\ call.gas # NoGas
    /\ call.gas.payment = <<call.ugo>>

\* C11: no gas data names as payment an object that is registered as an input
\* of the command log; an explicit gas object found in the registry makes the
\* build fail with the gas-object-in-use error, after the dry-run and before
\* any fetch.
C11_GasNotAnInput ==
    /\ (call.gas # NoGas
          => \A i \in 1..Len(call.gas.payment) : call.gas.payment[i] \notin registry)
    /\ (call.ugo # "" /\ call.ugo \in registry /\ DryRun(call, "ok")
          => /\ call.outcome = "raised"
             /\ call.error = "ValueError"
             /\ call.msg = "gas object in use"
             /\ Len(call.rpcs) = 1
             /\ call.ret = NoRet)

C11_Witness ==
    /\ call.op = "execute"
    /\ call.ugo = "o1"
    /\ "o1" \in registry
    /\ call.msg = "gas object in use"

\* C12 (as the claim states it): the gas-object-in-use test is made by the
\* builder calls when a command is built, not at assembly time: neither
\* get_transaction_data nor execute ever reports a gas object in use.
C12_TestAtBuildTime ==
    call.op \in {"get_transaction_data", "execute"}
    => call.msg # "gas object in use"

\* C12 (amended): the gas-object-in-use test is made at assembly time, by an
\* execute that names a gas object: once the dry-run has succeeded the call
\* fails with the gas-object-in-use error exactly when the object is in the
\* registry, and it does so before fetching the object.  No builder call, no
\* inspect_all and no get_transaction_data ever reports it.
C12_TestAtAssembly ==
    /\ (call.op # "execute" => call.msg # "gas object in use")
    /\ (call.op = "execute" /\ call.ugo # "" /\ DryRun(call, "ok")
          => /\ (call.msg = "gas object in use") <=> (call.ugo \in registry)
             /\ (call.ugo \in registry => Requests(call, "get_object") = {}))

C12_Witness ==
    /\ call.op = "execute"
    /\ DryRun(call, "ok")
    /\ call.msg = "gas object in use"
    /\ Requests(call, "get_object") = {}
    /\ Len(commands) = 1

\* the positions of the list given to the completed resolution that hold a
\* raw identifier
NeedFetch(c) == {i \in 1..Len(c.ret.items) : c.ret.items[i].t = "id"}

\* C13: one _resolve_arguments issues at most one get_objects_for request,
\* which covers every argument of the list that needs fetching, and issues no
\* request at all when no argument needs fetching.
C13_OneBatchedFetch ==
    call.op = "_resolve_arguments"
    => /\ Len(call.rpcs) <= 1
       /\ (NeedFetch(call) = {}) <=> (call.rpcs = <<>>)
       /\ \A k \in 1..Len(call.rpcs) :
             /\ call.rpcs[k].req = "get_objects_for"
             /\ {call.rpcs[k].about[j] : j \in 1..Len(call.rpcs[k].about)}
                  = {call.ret.items[i].o : i \in NeedFetch(call)}

C13_Witness ==
    /\ call.op = "_resolve_arguments"
    /\ call.outcome = "returned"
    /\ Cardinality(NeedFetch(call)) = 2
    /\ Len(call.ret.items) = 3
    /\ Len(call.rpcs) = 1

\* C14 (as the claim states it): the batched fetch names each distinct
\* identifier once, however many arguments of the list carry it.
C14_FetchNamesDistinct ==
    \A k \in Requests(call, "get_objects_for") :
        \A i, j \in 1..Len(call.rpcs[k].about) :
            i # j => call.rpcs[k].about[i] # call.rpcs[k].about[j]

\* C15: _resolve_arguments returns a list as long as the one it was given, in
\* which position i holds the resolution of argument i: the Pure builder
\* argument of a scalar, the Argument itself, the tuple for the object of a
\* record or of a raw identifier.
C15_PositionsPreserved ==
    (call.op = "_resolve_arguments" /\ call.outcome = "returned")
    => LET items == call.ret.items
           val == call.ret.val
       IN /\ Len(val) = Len(items)
          /\ \A i \in 1..Len(items) :
                CASE items[i].t = "pure" -> val[i] = PureBuilderArg(items[i].v)
                  [] items[i].t = "arg" -> val[i] = items[i]
                  [] OTHER -> val[i].t = "tup" /\ val[i].o = items[i].o

C15_Witness ==
    /\ call.op = "_resolve_arguments"
    /\ call.outcome = "returned"
    /\ Len(call.ret.items) = 3
    /\ call.ret.items[1] = IdItem("o2")
    /\ call.ret.items[2] = PureItem(1)
    /\ call.ret.items[3] = IdItem("o1")
    /\ call.ret.val[3].o = "o1"

\* C16: a batched fetch that answers not-ok, or with fewer records than
\* identifiers requested, makes the whole resolution fail with an error: no
\* list is returned and the builder holds nothing of that call.
C16_FetchFailureFailsAll ==
    \A k \in Requests(call, "get_objects_for") :
        call.rpcs[k].resp \in {"not_ok", "short"}
        => /\ call.outcome = "raised"
           /\ call.error = "ValueError"
           /\ call.ret.val = <<>>
           /\ commands = <<>>
           /\ inputs = <<>>
           /\ registry = {}

C16_Witness ==
    /\ call.op = "_resolve_arguments"
    /\ call.outcome = "raised"
    /\ Cardinality(NeedFetch(call)) = 2
    /\ Len(call.rpcs) = 1
    /\ call.rpcs[1].resp = "short"
    /\ call.rpcs[1].n = 1

\* C17 (as the claim states it): a batched fetch that returns as many records
\* as identifiers, one of them typed as nonexistent, makes the resolution
\* fail with the fetch error that names the identifiers.
C17_NonexistentIsFetchError ==
    \A k \in Requests(call, "get_objects_for") :
        call.rpcs[k].resp = "notexist"
        => /\ call.outcome = "raised"
           /\ call.error = "ValueError"
           /\ call.msg = "Unable to find object in set"

\* C18: every record of a returned resolution is converted by its owner kind:
\* AddressOwner and ImmutableOwner give an ImmOrOwnedObject argument of the
\* record's object, SharedOwner a SharedObject argument, each paired with the
\* builder argument of the record's object address.
C18_ConvertedByOwnerKind ==
    (call.op = "_resolve_arguments" /\ call.outcome = "returned")
    => \A i \in 1..Len(call.ret.items) :
          LET item == call.ret.items[i]
              got == call.ret.val[i]
          IN item.t \in {"id", "rec"}
             => /\ (OwnerOf(item.o) \in {"AddressOwner", "ImmutableOwner"}
                      => got = [t |-> "tup", o |-> item.o,
                                objarg |-> [kind |-> "ImmOrOwnedObject",
                                            o |-> item.o, mutable |-> FALSE,
                                            at |-> i]])
                /\ (OwnerOf(item.o) = "SharedOwner"
                      => got = [t |-> "tup", o |-> item.o,
                                objarg |-> [kind |-> "SharedObject",
                                            o |-> item.o, mutable |-> FALSE,
                                            at |-> i]])

C18_Witness ==
    /\ call.op = "_resolve_arguments"
    /\ call.outcome = "returned"
    /\ Len(call.ret.val) = 3
    /\ call.ret.items[1] = RecItem("pkg")
    /\ call.ret.val[1].objarg.kind = "ImmOrOwnedObject"
    /\ call.ret.items[2] = IdItem("o2")
    /\ call.ret.val[2].objarg.kind = "SharedObject"

\* the lookups of function metadata the completed call c made for target t
Lookups(c, t) ==
    {k \in Requests(c, "get_function") : c.rpcs[k].about = <<t>>}

\* C19: function metadata is asked for only for a target string that is not in
\* the cache, a call never asks again for a target it has looked up with
\* success, and an entry of the cache is never changed or removed.
C19_TargetLookedUpOnce ==
    [][/\ \A t \in DOMAIN cache : t \in DOMAIN cache' /\ cache'[t] = cache[t]
       /\ \A k \in Requests(call', "get_function") :
             /\ call'.rpcs[k].about[1] \notin DOMAIN cache
             /\ \A j \in Lookups(call', call'.rpcs[k].about[1]) :
                   j < k => call'.rpcs[j].resp # "ok"]_vars

C19_Witness ==
    /\ call.op = "split_coin_and_return"
    /\ call.outcome = "returned"
    /\ Cardinality({i \in 1..Len(commands) :
                      commands[i].info = "0x1::vector::remove"}) = 2
    /\ Cardinality(Lookups(call, "0x1::vector::remove")) = 1

\* C20: a move_call whose metadata lookup answers not-ok fails with the
\* target-not-found error after that one request; the cache is as it was,
\* without the target, and no command or input is appended.
C20_LookupFailure ==
    [][(call'.op = "move_call"
          /\ \E k \in Requests(call', "get_function") : call'.rpcs[k].resp = "not_ok")
        => /\ call'.outcome = "raised"
           /\ call'.error = "ValueError"
           /\ call'.msg = "Unable to find target"
           /\ Len(call'.rpcs) = 1
           /\ cache' = cache
           /\ call'.rpcs[1].about[1] \notin DOMAIN cache'
           /\ UNCHANGED <<commands, inputs, registry, executed>>]_vars

C20_Witness ==
    /\ call.op = "move_call"
    /\ call.outcome = "raised"
    /\ call.msg = "Unable to find target"
    /\ Len(call.rpcs) = 1
    /\ call.rpcs[1].about[1] \notin DOMAIN cache

\* C21 is not settled by this model: where _MC_RESULT_CACHE is created, per
\* object or per class, is decided by the base class, whose code is not part
\* of the sources modelled here.

\* C22 (as the claim states it): once the arguments are resolved, the pair at
\* every position whose parameter is mutable has its object argument marked
\* Mutable, and every other entry of the list is as the resolution left it.
C22_MarkedWhereMutable ==
    (call.op = "mark_arguments" /\ call.outcome = "returned")
    => \A i \in 1..Len(call.ret.val) :
          LET a == call.ret.val[i]
              b == call.ret.marked[i]
          IN IF call.ret.parameters[i] /\ a.t = "tup"
             THEN b = [a EXCEPT !.objarg.mutable = TRUE]
             ELSE b = a

\* the errors of resolution: a fetch that failed, a fetch that returned another
\* count, a target or capability that was not found
ResolutionErrors ==
    {"fetch failed", "Unable to find object in set", "Unable to find target",
     "Error in finding UpgradeCap"}

\* the errors of validation: shape, type, heterogeneous vector, split count,
\* missing field
ValidationErrors ==
    {"invalid coin object type", "Unsupported type for merge_to",
     "Unsupported entry in merge_from", "Unsupported entry in transfers",
     "Invalid 'from_coin'", "Split count must be greater than 1",
     "make_vector requires a non-empty list", "make_move_vec is for Objects only",
     "Expected first_class", "Can not unstake non-activated staked coin"}

\* C23 (as the claim states it): a builder call that fails with a resolution
\* error leaves the command list and the input table as they were when the
\* call began, the calls made of several steps included.
C23_ResolutionFailureFrame ==
    (call.op \in BuilderOps /\ call.outcome = "raised"
        /\ call.msg \in ResolutionErrors)
    => (commands = prev.commands /\ inputs = prev.inputs)

\* C24 (as the claim states it): a builder call that fails validation has
\* issued no request.
C24_ValidationBeforeRequests ==
    (call.op \in BuilderOps /\ call.outcome = "raised"
        /\ call.msg \in ValidationErrors)
    => call.rpcs = <<>>

\* C25: a split_coin_and_return that returns has appended, after the commands
\* that were there, the split move call, then n-1 vector-remove calls each on
\* the split's result vector, then the destroy-empty call, for the n >= 2 it
\* was given (the Pure input of the split), and returns the n-1 handles of the
\* remove calls; one refused for its split count has appended nothing and
\* issued no request.
C25_SplitAndReturn ==
    (call.op = "split_coin_and_return")
    => /\ (call.outcome = "returned")
          => LET k == Len(prev.commands)
                 n == inputs[commands[k + 1].args[2].i + 1].v
             IN /\ n >= 2
                /\ Len(commands) = k + n + 1
                /\ SubSeq(commands, 1, k) = prev.commands
                /\ commands[k + 1].cmd = "MoveCall"
                /\ commands[k + 1].info = "0x2::coin::divide_into_n"
                /\ \A j \in 1..(n - 1) :
                      /\ commands[k + 1 + j].cmd = "MoveCall"
                      /\ commands[k + 1 + j].info = "0x1::vector::remove"
                      /\ commands[k + 1 + j].args[1] = ResultArg(k)
                /\ commands[k + n + 1].cmd = "MoveCall"
                /\ commands[k + n + 1].info = "0x1::vector::destroy_empty"
                /\ commands[k + n + 1].args = <<ResultArg(k)>>
                /\ Len(call.ret.args) = n - 1
                /\ \A j \in 1..(n - 1) : call.ret.args[j] = ArgItem(ResultArg(k + j))
       /\ (call.msg = "Split count must be greater than 1")
          => /\ call.outcome = "raised"
             /\ call.rpcs = <<>>
             /\ commands = prev.commands
             /\ inputs = prev.inputs

\* a split into three has returned its two new coins
C25_Witness ==
    /\ call.op = "split_coin_and_return"
    /\ call.outcome = "returned"
    /\ Len(call.ret.args) = 2
    /\ Len(commands) = Len(prev.commands) + 4

\* the list has non-Argument elements of more than one class
MixedClasses(items) ==
    \E i, j \in 1..Len(items) :
        /\ ClassOf(items[i]) # "Argument"
        /\ ClassOf(items[j]) # "Argument"
        /\ ClassOf(items[i]) # ClassOf(items[j])

\* the list has a Pure value
HasPure(items) == \E i \in 1..Len(items) : items[i].t = "pure"

InputRefs(c) ==
    {commands[c].args[x].i :
        x \in {y \in 1..Len(commands[c].args) : commands[c].args[y].a = "Input"}}

\* C27: the input table holds at most one Object input per object id, and every
\* Input argument of a command names a slot of the table, so that two commands
\* referencing one object id name the same input index.
C27_OneInputPerObject ==
    /\ \A i, j \in 1..Len(inputs) :
          (inputs[i].kind = "Object" /\ inputs[j].kind = "Object"
              /\ inputs[i].o = inputs[j].o) => i = j
    /\ \A c \in 1..Len(commands) : \A r \in InputRefs(c) : r + 1 \in 1..Len(inputs)

\* two commands of the log reference the same object through one input
C27_Witness ==
    \E c, d \in 1..Len(commands) :
        /\ c < d
        /\ \E r \in InputRefs(c) \cap InputRefs(d) : inputs[r + 1].kind = "Object"

\* the commands (positions from 1) that command c takes a result of
ResultRefs(c) ==
    {commands[c].args[x].i :
        x \in {y \in 1..Len(commands[c].args) :
                  commands[c].args[y].a \in {"Result", "NestedResult"}}}

\* C28: the rendered kind lists the commands as the log holds them, a call
\* only appends to the commands that were there when it began, and every
\* result handle used by the command at position k (from 0) names a position
\* below k.
C28_OrderedAndBackward ==
    /\ raw_kind.commands = commands
    /\ Len(prev.commands) <= Len(commands)
    /\ SubSeq(commands, 1, Len(prev.commands)) = prev.commands
    /\ \A c \in 1..Len(commands) : \A r \in ResultRefs(c) : r < c - 1

\* a call has appended several commands, the later ones on the result of an
\* earlier one
C28_Witness ==
    /\ Len(commands) >= Len(prev.commands) + 3
    /\ \E c \in 1..Len(commands) : c >= 3 /\ ResultRefs(c) # {}

\* C29 (as the claim states it): a build whose dry-run succeeded and whose gas
\* was resolved returns TransactionData bound to the address the dry-run was
\* run for, whatever the signer block's sender is; an execute() submits for
\* that same address.
C29_DryRunSenderIsBound ==
    /\ (call.op = "get_transaction_data" /\ DryRun(call, "ok") /\ call.gas # NoGas)
       => /\ call.outcome = "returned"
          /\ call.ret.type = "TransactionData"
          /\ call.ret.sender = call.rpcs[1].about[1]
    /\ (call.op = "execute" /\ DryRun(call, "ok") /\ call.gas # NoGas)
       => /\ Requests(call, "submit") # {}
          /\ \A i \in Requests(call, "submit") :
                call.rpcs[i].about = call.rpcs[1].about

\* C30: one execute() call issues at most one dry-run inspection and at most
\* one submission; a dry-run that failed is the last request of the call, and
\* so is the submission, whatever it answered.
C30_NoRetry ==
    (call.op = "execute")
    => /\ Cardinality(Requests(call, "inspect")) <= 1
       /\ Cardinality(Requests(call, "submit")) <= 1
       /\ \A i \in Requests(call, "inspect") :
             call.rpcs[i].resp # "ok" => i = Len(call.rpcs)
       /\ \A i \in Requests(call, "submit") : i = Len(call.rpcs)

\* an execute() gave up after the one dry-run that failed, or after the one
\* submission that was not ok or raised
C30_Witness ==
    /\ call.op = "execute"
    /\ \/ /\ Len(call.rpcs) = 1
          /\ call.rpcs[1].req = "inspect"
          /\ call.rpcs[1].resp \in InspectFailures
       \/ /\ Len(call.rpcs) >= 2
          /\ call.rpcs[Len(call.rpcs)].req = "submit"
          /\ call.rpcs[Len(call.rpcs)].resp \in {"not_ok", "raise"}

\* C31 (as the claim states it): inspect_all returns the TxInspectionResult
\* when the inspection succeeds, and returns the failed SuiRpcResult, a not-ok
\* result value, when the inspect request comes back not ok.
C31_InspectAllReturnsResult ==
    (call.op = "inspect_all" /\ Len(call.rpcs) = 1)
    => /\ call.rpcs[1].resp = "ok"
          => (call.outcome = "returned" /\ call.ret.type = "TxInspectionResult")
       /\ call.rpcs[1].resp = "not_ok"
          => /\ call.outcome = "returned"
             /\ call.ret.type = "SuiRpcResult"
             /\ ~call.ret.ok

\* the object the Input argument a designates in input table ins, "" when
\* a is not an Input argument or the slot holds a Pure value
ObjectAt(ins, a) ==
    IF a.a = "Input" /\ a.i + 1 \in 1..Len(ins) THEN ins[a.i + 1].o ELSE ""

\* C32: unstake_coin of a StakedSui whose status is Pending can only fail,
\* with ValueError, no request and the builder as it was; an unstake_coin
\* that returns has appended exactly one move call, the unstake request, on
\* the system state object followed by the staked coin.
C32_UnstakeCoin ==
    /\ \A o \in UnstakeCoinBody(Here, StakedSui("s1", "Pending")) :
          ~o.ok /\ o.error = "ValueError" /\ o.s = Here
    /\ (call.op = "unstake_coin"
            /\ call.msg = "Can not unstake non-activated staked coin")
       => /\ call.outcome = "raised"
          /\ call.error = "ValueError"
          /\ call.rpcs = <<>>
          /\ commands = prev.commands
          /\ inputs = prev.inputs
    /\ (call.op = "unstake_coin" /\ call.outcome = "returned")
       => LET k == Len(prev.commands)
          IN /\ Len(commands) = k + 1
             /\ SubSeq(commands, 1, k) = prev.commands
             /\ commands[k + 1].cmd = "MoveCall"
             /\ commands[k + 1].info = "0x3::sui_system::request_withdraw_stake"
             /\ Len(commands[k + 1].args) = 2
             /\ ObjectAt(inputs, commands[k + 1].args[1]) = "0x5"
             /\ ObjectAt(inputs, commands[k + 1].args[2]) = "s1"

\* an unstake request has been appended
C32_Witness ==
    /\ call.op = "unstake_coin"
    /\ call.outcome = "returned"
    /\ Len(commands) = Len(prev.commands) + 1
    /\ ObjectAt(inputs, commands[Len(commands)].args[2]) = "s1"

RECURSIVE FromLittleEndian(_)
\* the integer a list of bytes encodes, least significant byte first
FromLittleEndian(bytes) ==
    IF bytes = <<>> THEN 0 ELSE Head(bytes) + 256 * FromLittleEndian(Tail(bytes))

\* C33 (as the claim states it): for in_el below 256^byte_count the call
\* returns byte_count bytes, each below 256, that encode in_el least
\* significant byte first; it raises only when in_el does not fit.
C33_FixedWidthLittleEndian ==
    (call.op = "int_to_listu8")
    => LET byte_count == call.ret.args[1]
           in_el == call.ret.args[2]
       IN /\ in_el < 256 ^ byte_count
             => /\ call.outcome = "returned"
                /\ Len(call.ret.val) = byte_count
                /\ \A i \in 1..Len(call.ret.val) : call.ret.val[i] \in 0..255
                /\ FromLittleEndian(call.ret.val) = in_el
          /\ call.outcome = "raised"
             => (call.error = "ValueError" /\ in_el >= 256 ^ byte_count)

\* the classes each coercion utility has a branch for
Handled(utility) ==
    CASE utility = "as_sui_address" -> {"SuiAddress", "ObjectID", "SuiString", "str"}
      [] utility = "as_sui_string" -> {"SuiString", "str", "int", "SuiAddress"}
      [] utility = "as_sui_array" -> {"SuiArray", "list", "tuple"}
      [] OTHER -> {"SuiTransactionDigest", "SuiString", "str"}

\* C34 (as the claim states it): a coercion utility given a value of a class
\* it does not handle raises ValueError, and returns nothing.
C34_UnhandledIsValueError ==
    (call.op \in Coercions /\ call.ret.args[1].class \notin Handled(call.op))
    => (call.outcome = "raised" /\ call.error = "ValueError")

\* the arguments of command c, as a set
ArgsOf(c) == {commands[c].args[x] : x \in 1..Len(commands[c].args)}

\* C35: a publish_upgrade that returns has fetched the capability first and
\* has appended, after the commands that were there, exactly three commands:
\* the authorization, the upgrade taking the authorization's result, the
\* commit taking the upgrade's result; one that fails the capability check
\* has appended no command and no input.
C35_UpgradeInThreeSteps ==
    (call.op = "publish_upgrade")
    => /\ (call.outcome = "returned")
          => LET k == Len(prev.commands)
             IN /\ call.rpcs[1].req = "get_object"
                /\ call.rpcs[1].resp = "ok"
                /\ Len(commands) = k + 3
                /\ SubSeq(commands, 1, k) = prev.commands
                /\ commands[k + 1].info = "0x2::package::authorize_upgrade"
                /\ commands[k + 2].cmd = "Upgrade"
                /\ ResultArg(k) \in ArgsOf(k + 2)
                /\ commands[k + 3].info = "0x2::package::commit_upgrade"
                /\ ResultArg(k + 1) \in ArgsOf(k + 3)
                /\ call.ret.args = <<ArgItem(ResultArg(k + 2))>>
       /\ (call.msg \in {"Error in finding UpgradeCap",
                         "not recognized as UpgradeCap"})
          => /\ call.outcome = "raised"
             /\ Requests(call, "get_object") = {1}
             /\ commands = prev.commands
             /\ inputs = prev.inputs

\* an upgrade has been authorized, published and committed
C35_Witness ==
    /\ call.op = "publish_upgrade"
    /\ call.outcome = "returned"
    /\ Len(commands) = Len(prev.commands) + 3
    /\ commands[Len(commands)].info = "0x2::package::commit_upgrade"

\* C36 (as the claim states it): the Input argument of the commit command a
\* publish_upgrade appends designates the input slot that holds the upgrade
\* capability, also when the capability was in the input table before the
\* call.
C36_CommitNamesCapability ==
    (call.op = "publish_upgrade" /\ call.outcome = "returned")
    => LET commit == commands[Len(commands)]
       IN /\ commit.info = "0x2::package::commit_upgrade"
          /\ commit.args[1].a = "Input"
          /\ commit.args[1].i + 1 \in 1..Len(inputs)
          /\ inputs[commit.args[1].i + 1].kind = "Object"
          /\ inputs[commit.args[1].i + 1].o = "cap"

\* C37 (as the claim states it): every pair of a returned resolution holds the
\* object argument built for its own record: it describes the object of the
\* pair's builder argument and was computed at the pair's own position.
C37_PairsSelfConsistent ==
    (call.op = "_resolve_arguments" /\ call.outcome = "returned")
    => \A i \in 1..Len(call.ret.val) :
          call.ret.val[i].t = "tup"
          => /\ call.ret.val[i].objarg.o = call.ret.val[i].o
             /\ call.ret.val[i].objarg.at = i

\* C38 (as the claim states it): after move_call has resolved and marked its
\* arguments, the list the caller passed still holds the values the caller
\* put in it.
C38_ArgumentsListUnchanged ==
    (call.op = "mark_arguments") => call.ret.arguments = call.ret.items

\* the submissions sent by the execute() coroutines so far
Submissions == {i \in 1..Len(tasks.rpcs) : tasks.rpcs[i].req = "submit"}

\* C39 (as the claim states it): however two execute() calls on one object
\* interleave at their awaits, at most one submission is sent.
C39_OneSubmissionInterleaved == Cardinality(Submissions) <= 1

====
